---- MODULE Spec2Model ----
(***************************************************************************)
(* jenkins-flow: the workflow engine (pkg/workflow), the Jenkins and       *)
(* GitHub clients it polls (pkg/jenkins, pkg/github), and the dashboard    *)
(* server that launches runs and tracks their state (pkg/server).          *)
(*                                                                         *)
(* Conventions.  Go indices are 0-based, sequences here are 1-based: item  *)
(* i of this model is cfg.Workflow[i-1], member j is Steps[j-1].  A nil    *)
(* pointer is the distinguished value of its type (NilStep, NilPR, ...),   *)
(* a nil error is NoErr, a nil *time.Time is 0 and a set one is 1.  An     *)
(* error value keeps what the code can observe of it: the root cause       *)
(* (errors.Is sees it through every %w wrapper), the operation runStep     *)
(* wrapped it with, and the names fmt.Errorf put in front of it.           *)
(***************************************************************************)
EXTENDS Integers, Sequences, FiniteSets, TLC

\* ------------------------------------------------------------------ bounds
MaxItems == 2
MaxGroup == 3

\* The HTTP handler goroutines of the scenario: request r launches run r.
Runs == {1, 2}

\* ------------------------------------------------------------------ config
NilPRCfg ==
    [PRNumber |-> 0, HeadBranch |-> "", WaitFor |-> "", ResolvedURL |-> "", ResolvedTitle |-> ""]

StepItem ==
    [kind |-> "step", n |-> 1, pr |-> NilPRCfg]

ParallelItem(n) ==
    [kind |-> "parallel", n |-> n, pr |-> NilPRCfg]

PRWaitItem(num, branch, waitFor) ==
    [kind |-> "prwait", n |-> 0,
     pr |-> [PRNumber |-> num, HeadBranch |-> branch, WaitFor |-> waitFor,
             ResolvedURL |-> "", ResolvedTitle |-> ""]]

IsParallel(item) ==
    item.kind = "parallel"

IsPRWait(item) ==
    item.kind = "prwait"

\* The number of the one pull request of the scenario and its head branch.
ThePR == 42

TheBranch == "feat"

\* Item kinds used in multi-item workflows, and the larger ones run alone.
SeqKinds ==
    {StepItem, ParallelItem(2), PRWaitItem(0, TheBranch, "merged")}

SoloKinds ==
    {StepItem} \cup {ParallelItem(n) : n \in 1..MaxGroup}
               \cup {PRWaitItem(num, IF num = 0 THEN TheBranch ELSE "", w) :
                         num \in {0, ThePR}, w \in {"merged", "closed"}}

RECURSIVE SeqsUpTo(_, _)
SeqsUpTo(S, n) ==
    IF n = 0 THEN {<<>>}
    ELSE LET shorter == SeqsUpTo(S, n - 1)
         IN shorter \cup {Append(w, x) : w \in {v \in shorter : Len(v) = n - 1}, x \in S}

Workflows ==
    {<<k>> : k \in SoloKinds} \cup {w \in SeqsUpTo(SeqKinds, MaxItems) : Len(w) >= 2}

HasKind(w, k) ==
    \E i \in 1..Len(w) : w[i].kind = k

\* ------------------------------------------------------------------ config files
\* A text that may hold a ${name} placeholder: a sequence of pieces, each a
\* literal or a placeholder; the empty string is the empty sequence.
Lit(s) ==
    IF s = "" THEN <<>> ELSE <<[ph |-> FALSE, s |-> s]>>

Placeholder(name) ==
    <<[ph |-> TRUE, s |-> name]>>

\* The string a text is when nothing was substituted in it.
Raw(text) ==
    IF text = <<>> THEN "" ELSE IF text[1].ph THEN "${branch}" ELSE text[1].s

\* Inputs map the input names to values; Unset marks a name the map lacks.
InputNames ==
    {"branch", "region"}

Unset ==
    "(unset)"

NoInputs ==
    [n \in InputNames |-> Unset]

\* config.Substitute: os.Expand with the inputs, "" for a name they lack.
RECURSIVE Substitute(_, _)
Substitute(text, vars) ==
    IF text = <<>> THEN <<>>
    ELSE (IF Head(text).ph
          THEN Lit(IF Head(text).s \in InputNames /\ vars[Head(text).s] # Unset
                   THEN vars[Head(text).s] ELSE "")
          ELSE <<Head(text)>>)
         \o Substitute(Tail(text), vars)

substituteIfTemplate(value, inputs) ==
    IF value = <<>> \/ inputs = NoInputs \/ ~(\E k \in 1..Len(value) : value[k].ph)
    THEN value
    ELSE Substitute(value, inputs)

\* An item of Config.Workflow as the file gives it.
RawStep(instance, params) ==
    [Instance |-> instance, Params |-> params]

RawItem(kind, step, steps, num, branch, waitFor) ==
    [kind |-> kind, Instance |-> step.Instance, Params |-> step.Params, Steps |-> steps,
     PRNumber |-> num, HeadBranch |-> branch, WaitFor |-> waitFor]

GoodInstance ==
    [URL |-> "http://ci", AuthEnv |-> "", Token |-> "user:token"]

\* A Config: the instances file (Instances, GitHub), the workflow file (Inputs,
\* Workflow), and the inputs sent with the run request.
RawConfig(instances, github, inputs, reqInputs, workflow) ==
    [Instances |-> instances, GitHub |-> github, Inputs |-> inputs, ReqInputs |-> reqInputs,
     Workflow |-> workflow]

\* The files behind an engine-level workflow w: one known instance, a GitHub
\* section, no inputs.
ConfOf(w) ==
    RawConfig([n \in {"ci"} |-> GoodInstance], TRUE, NoInputs, NoInputs,
              [i \in 1..Len(w) |->
                  RawItem(w[i].kind, RawStep("ci", Lit("main")),
                          [j \in 1..w[i].n |-> RawStep("ci", Lit("main"))],
                          w[i].pr.PRNumber, Lit(w[i].pr.HeadBranch), Lit(w[i].pr.WaitFor))])

\* Mutant: the instance a step names is not looked up.
validateStep_AnyInstance(c, step) ==
    IF step.Instance = "" THEN "missing instance" ELSE ""

\* validateStep: "" when the step is valid.
validateStep(c, step) ==
    IF step.Instance = "" THEN "missing instance"
    ELSE IF step.Instance \notin DOMAIN c.Instances THEN "unknown instance"
    ELSE ""

\* Mutant: a gate may give a number and a branch.
validatePRWait_Both(pr) ==
    IF pr.PRNumber <= 0 /\ pr.HeadBranch = <<>> THEN "either pr_number or head_branch must be provided"
    ELSE IF pr.WaitFor = <<>> THEN "missing wait_for"
    ELSE IF pr.WaitFor \notin {Lit("merged"), Lit("closed")} THEN "wait_for must be 'merged' or 'closed'"
    ELSE ""

\* validatePRWait: "" when the gate is valid.
validatePRWait(pr) ==
    IF pr.PRNumber <= 0 /\ pr.HeadBranch = <<>> THEN "either pr_number or head_branch must be provided"
    ELSE IF pr.PRNumber > 0 /\ pr.HeadBranch # <<>> THEN "pr_number and head_branch are mutually exclusive"
    ELSE IF pr.WaitFor = <<>> THEN "missing wait_for"
    ELSE IF pr.WaitFor \notin {Lit("merged"), Lit("closed")} THEN "wait_for must be 'merged' or 'closed'"
    ELSE ""

\* Mutant: a group is not asked for steps.
validateItem_EmptyGroup(c, i) ==
    LET item == c.Workflow[i]
    IN IF item.kind = "prwait" THEN validatePRWait(item)
       ELSE IF item.kind = "parallel"
       THEN LET bad == {j \in 1..Len(item.Steps) : validateStep(c, item.Steps[j]) # ""}
            IN IF bad = {} THEN ""
               ELSE validateStep(c, item.Steps[CHOOSE j \in bad : \A k \in bad : j <= k])
       ELSE validateStep(c, item)

\* What validate finds in item i.
validateItem(c, i) ==
    LET item == c.Workflow[i]
    IN IF item.kind = "prwait" THEN validatePRWait(item)
       ELSE IF item.kind = "parallel"
       THEN IF Len(item.Steps) = 0 THEN "parallel group is empty"
            ELSE LET bad == {j \in 1..Len(item.Steps) : validateStep(c, item.Steps[j]) # ""}
                 IN IF bad = {} THEN ""
                    ELSE validateStep(c, item.Steps[CHOOSE j \in bad : \A k \in bad : j <= k])
       ELSE validateStep(c, item)

\* Config.validate: the first error, "" when the config is valid.
validate(c) ==
    IF DOMAIN c.Instances = {} THEN "no instances defined"
    ELSE IF Len(c.Workflow) = 0 THEN "workflow is empty"
    ELSE IF \E n \in DOMAIN c.Instances : c.Instances[n].URL = "" THEN "instance has empty URL"
    ELSE IF \E n \in DOMAIN c.Instances : c.Instances[n].AuthEnv = "" /\ c.Instances[n].Token = ""
    THEN "instance must have either 'auth_env' or 'token' set"
    ELSE LET bad == {i \in 1..Len(c.Workflow) : validateItem(c, i) # ""}
         IN IF bad = {} THEN "" ELSE validateItem(c, CHOOSE i \in bad : \A k \in bad : i <= k)

\* RunWorkflow: the request's inputs override the file's.
MergeInputs(c) ==
    [c EXCEPT !.Inputs = [n \in InputNames |-> IF c.ReqInputs[n] # Unset THEN c.ReqInputs[n] ELSE @[n]]]

\* Server.applyInputSubstitutions: the text fields of PR gates only.
applyInputSubstitutions(c) ==
    IF c.Inputs = NoInputs THEN c
    ELSE [c EXCEPT !.Workflow =
             [i \in 1..Len(c.Workflow) |->
                 IF c.Workflow[i].kind # "prwait" THEN c.Workflow[i]
                 ELSE [c.Workflow[i] EXCEPT
                          !.HeadBranch = substituteIfTemplate(@, c.Inputs),
                          !.WaitFor = substituteIfTemplate(@, c.Inputs)]]]

\* The engine-level workflow of a config.
Lower(c) ==
    [i \in 1..Len(c.Workflow) |->
        LET item == c.Workflow[i]
        IN IF item.kind = "step" THEN StepItem
           ELSE IF item.kind = "parallel" THEN ParallelItem(Len(item.Steps))
           ELSE PRWaitItem(item.PRNumber, Raw(item.HeadBranch), Raw(item.WaitFor))]

\* The step the engine runs as member j of item i.
StepAt(c, i, j) ==
    IF c.Workflow[i].kind = "parallel" THEN c.Workflow[i].Steps[j] ELSE c.Workflow[i]

\* ------------------------------------------------------------------ errors
NoErr ==
    [cause |-> "nil", result |-> "", op |-> "", step |-> <<0, 0>>, wrap |-> "", item |-> 0]

\* A leaf error: fmt.Errorf without %w, ctx.Err(), or a transport error.
LeafErr(cause) ==
    [NoErr EXCEPT !.cause = cause]

\* errors.Is(err, context.Canceled): every wrapper on the path uses %w.
IsCanceled(e) ==
    e.cause = "canceled"

\* ------------------------------------------------------------------ Jenkins client
\* What the backend may answer, per fault profile of the behaviour.
Faults ==
    {"trigger_status", "trigger_noloc", "queue_404", "queue_cancelled", "build_status",
     "res_FAILURE", "res_UNSTABLE", "res_ABORTED", "res_EMPTY",
     "gh_404", "gh_nomatch", "gh_multi", "db_create", "db_update"}

JenkinsFaults ==
    {"trigger_status", "trigger_noloc", "queue_404", "queue_cancelled", "build_status",
     "res_FAILURE", "res_UNSTABLE", "res_ABORTED", "res_EMPTY"}

GitHubFaults ==
    {"gh_404", "gh_nomatch", "gh_multi"}

DBFaults ==
    {"db_create", "db_update"}

StatusCreated == 201

StatusAccepted == 202

StatusOK == 200

StatusNotFound == 404

StatusServerError ==
    CHOOSE code \in 500..599 : TRUE

TriggerResponses(f) ==
    {[neterr |-> FALSE, status |-> StatusCreated, location |-> "q"],
     [neterr |-> FALSE, status |-> StatusAccepted, location |-> "q"]}
    \cup (IF f = "trigger_status"
          THEN {[neterr |-> FALSE, status |-> StatusServerError, location |-> ""],
                [neterr |-> FALSE, status |-> StatusOK, location |-> "q"]}
          ELSE {})
    \cup (IF f = "trigger_noloc"
          THEN {[neterr |-> FALSE, status |-> StatusCreated, location |-> ""]}
          ELSE {})

\* Mutant: every status below 300 counts as triggered.
TriggerJob_AnySuccess(done, resp) ==
    IF done \/ resp.neterr
    THEN [url |-> "", err |-> LeafErr(IF done THEN "canceled" ELSE "request")]
    ELSE IF resp.status >= 300
    THEN [url |-> "", err |-> LeafErr("trigger failed with status")]
    ELSE IF resp.location = ""
    THEN [url |-> "", err |-> LeafErr("no Location header returned from trigger")]
    ELSE [url |-> resp.location, err |-> NoErr]

\* TriggerJob: the request fails when ctx is already done; otherwise the status
\* and the Location header decide.
TriggerJob(done, resp) ==
    IF done \/ resp.neterr
    THEN [url |-> "", err |-> LeafErr(IF done THEN "canceled" ELSE "request")]
    ELSE IF resp.status # StatusCreated /\ resp.status # StatusAccepted
    THEN [url |-> "", err |-> LeafErr("trigger failed with status")]
    ELSE IF resp.location = ""
    THEN [url |-> "", err |-> LeafErr("no Location header returned from trigger")]
    ELSE [url |-> resp.location, err |-> NoErr]

QueueResponses(f) ==
    {[neterr |-> FALSE, status |-> StatusOK, cancelled |-> FALSE, url |-> ""],
     [neterr |-> FALSE, status |-> StatusOK, cancelled |-> FALSE, url |-> "b"]}
    \cup (IF f = "queue_404"
          THEN {[neterr |-> FALSE, status |-> StatusNotFound, cancelled |-> FALSE, url |-> ""]}
          ELSE {})
    \cup (IF f = "queue_cancelled"
          THEN {[neterr |-> FALSE, status |-> StatusOK, cancelled |-> TRUE, url |-> ""],
                [neterr |-> FALSE, status |-> StatusOK, cancelled |-> TRUE, url |-> "b"]}
          ELSE {})

\* Mutant: a queue item that is gone is polled again.
PollQueue_Tolerant(done, resp) ==
    IF done \/ resp.neterr
    THEN [again |-> FALSE, url |-> "", err |-> LeafErr(IF done THEN "canceled" ELSE "request")]
    ELSE IF resp.status = StatusNotFound
    THEN [again |-> TRUE, url |-> "", err |-> NoErr]
    ELSE IF resp.status # StatusOK
    THEN [again |-> FALSE, url |-> "", err |-> LeafErr("poll queue status")]
    ELSE IF resp.cancelled
    THEN [again |-> FALSE, url |-> "", err |-> LeafErr("job was cancelled in queue")]
    ELSE IF resp.url # ""
    THEN [again |-> FALSE, url |-> resp.url, err |-> NoErr]
    ELSE [again |-> TRUE, url |-> "", err |-> NoErr]

\* One turn of WaitForQueue's loop once the ticker branch is taken.
\* again = TRUE: "still waiting in queue", the loop goes round.
PollQueue(done, resp) ==
    IF done \/ resp.neterr
    THEN [again |-> FALSE, url |-> "", err |-> LeafErr(IF done THEN "canceled" ELSE "request")]
    ELSE IF resp.status = StatusNotFound
    THEN [again |-> FALSE, url |-> "", err |-> LeafErr("queue item not found (cancelled?)")]
    ELSE IF resp.status # StatusOK
    THEN [again |-> FALSE, url |-> "", err |-> LeafErr("poll queue status")]
    ELSE IF resp.cancelled
    THEN [again |-> FALSE, url |-> "", err |-> LeafErr("job was cancelled in queue")]
    ELSE IF resp.url # ""
    THEN [again |-> FALSE, url |-> resp.url, err |-> NoErr]
    ELSE [again |-> TRUE, url |-> "", err |-> NoErr]

\* WaitForQueue under a live context, the server answering the polls with
\* resps in turn: the polls made (n so far), and what is returned; waiting
\* when the loop is still going round after the last of them.
RECURSIVE WaitForQueue(_, _)
WaitForQueue(resps, n) ==
    IF resps = <<>>
    THEN [polls |-> n, waiting |-> TRUE, url |-> "", err |-> NoErr]
    ELSE LET out == PollQueue(FALSE, Head(resps))
         IN IF out.again
            THEN WaitForQueue(Tail(resps), n + 1)
            ELSE [polls |-> n + 1, waiting |-> FALSE, url |-> out.url, err |-> out.err]

FaultResult(f) ==
    CASE f = "res_FAILURE" -> "FAILURE"
      [] f = "res_UNSTABLE" -> "UNSTABLE"
      [] f = "res_ABORTED" -> "ABORTED"
      [] f = "res_EMPTY" -> ""
      [] OTHER -> "SUCCESS"

BuildResponses(f) ==
    {[neterr |-> FALSE, status |-> StatusOK, building |-> TRUE, result |-> ""],
     [neterr |-> FALSE, status |-> StatusOK, building |-> FALSE, result |-> "SUCCESS"],
     [neterr |-> FALSE, status |-> StatusOK, building |-> FALSE, result |-> FaultResult(f)]}
    \cup (IF f = "build_status"
          THEN {[neterr |-> FALSE, status |-> StatusServerError, building |-> FALSE, result |-> ""]}
          ELSE {})

\* Mutant: the build poll's request does not carry the context.
PollBuild_NoCtx(done, resp) ==
    IF resp.neterr
    THEN [again |-> FALSE, result |-> "", err |-> LeafErr("request")]
    ELSE IF resp.status # StatusOK
    THEN [again |-> FALSE, result |-> "", err |-> LeafErr("poll build status")]
    ELSE IF ~resp.building
    THEN [again |-> FALSE, result |-> resp.result, err |-> NoErr]
    ELSE [again |-> TRUE, result |-> "", err |-> NoErr]

\* One turn of WaitForBuild's loop once the ticker branch is taken.
PollBuild(done, resp) ==
    IF done \/ resp.neterr
    THEN [again |-> FALSE, result |-> "", err |-> LeafErr(IF done THEN "canceled" ELSE "request")]
    ELSE IF resp.status # StatusOK
    THEN [again |-> FALSE, result |-> "", err |-> LeafErr("poll build status")]
    ELSE IF ~resp.building
    THEN [again |-> FALSE, result |-> resp.result, err |-> NoErr]
    ELSE [again |-> TRUE, result |-> "", err |-> NoErr]

\* ------------------------------------------------------------------ GitHub client
NilPRStatus ==
    [Number |-> 0, State |-> "", Merged |-> FALSE, Title |-> "", HTMLURL |-> "", Ref |-> ""]

\* The pull request of the scenario as the API reports it in remote state s
\* (open, merged, or closed without merge); its head ref differs from
\* TheBranch in letter case only.
RemotePR(s) ==
    [Number |-> ThePR, State |-> IF s = "open" THEN "open" ELSE "closed",
     Merged |-> (s = "merged"), Title |-> "T", HTMLURL |-> "U", Ref |-> "Feat"]

OtherPR ==
    [Number |-> ThePR + 1, State |-> "open", Merged |-> FALSE, Title |-> "T2", HTMLURL |-> "U2", Ref |-> "main"]

TwinPR ==
    [Number |-> ThePR + 2, State |-> "open", Merged |-> FALSE, Title |-> "T3", HTMLURL |-> "U3", Ref |-> "FEAT"]

GetPRResponses(f, s) ==
    {[neterr |-> FALSE, status |-> StatusOK, pr |-> RemotePR(s)]}
    \cup (IF f = "gh_404"
          THEN {[neterr |-> FALSE, status |-> StatusNotFound, pr |-> NilPRStatus]}
          ELSE {})

\* Mutant: the PR status request does not carry the context.
GetPRStatus_NoCtx(done, resp) ==
    IF resp.neterr
    THEN [pr |-> NilPRStatus, err |-> LeafErr("request")]
    ELSE IF resp.status = StatusNotFound
    THEN [pr |-> NilPRStatus, err |-> LeafErr("PR not found")]
    ELSE IF resp.status # StatusOK
    THEN [pr |-> NilPRStatus, err |-> LeafErr("GitHub API error")]
    ELSE [pr |-> resp.pr, err |-> NoErr]

GetPRStatus(done, resp) ==
    IF done \/ resp.neterr
    THEN [pr |-> NilPRStatus, err |-> LeafErr(IF done THEN "canceled" ELSE "request")]
    ELSE IF resp.status = StatusNotFound
    THEN [pr |-> NilPRStatus, err |-> LeafErr("PR not found")]
    ELSE IF resp.status # StatusOK
    THEN [pr |-> NilPRStatus, err |-> LeafErr("GitHub API error")]
    ELSE [pr |-> resp.pr, err |-> NoErr]

\* The list of open pull requests.
ListResponses(f, s) ==
    {[neterr |-> FALSE, status |-> StatusOK,
      pulls |-> IF s = "open" THEN <<OtherPR, RemotePR(s)>> ELSE <<OtherPR>>]}
    \cup (IF f = "gh_nomatch"
          THEN {[neterr |-> FALSE, status |-> StatusOK, pulls |-> <<>>]}
          ELSE {})
    \cup (IF f = "gh_multi"
          THEN {[neterr |-> FALSE, status |-> StatusOK, pulls |-> <<RemotePR("open"), OtherPR, TwinPR>>]}
          ELSE {})

\* strings.ToLower on the branch names of the scenario.
ToLower(s) ==
    CASE s \in {"feat", "Feat", "FEAT"} -> "feat"
      [] s \in {"main", "Main", "MAIN"} -> "main"
      [] OTHER -> s

EqualFold(a, b) ==
    ToLower(a) = ToLower(b)

\* Mutant: the first pull request on the branch is taken.
FindPRByBranch_First(done, resp, branch) ==
    IF branch = ""
    THEN [pr |-> NilPRStatus, err |-> LeafErr("branch name must be provided")]
    ELSE IF done \/ resp.neterr
    THEN [pr |-> NilPRStatus, err |-> LeafErr(IF done THEN "canceled" ELSE "request")]
    ELSE IF resp.status # StatusOK
    THEN [pr |-> NilPRStatus, err |-> LeafErr("GitHub API error")]
    ELSE LET IsMatch(p) == EqualFold(p.Ref, branch)
             matches == SelectSeq(resp.pulls, IsMatch)
         IN IF Len(matches) = 0
            THEN [pr |-> NilPRStatus, err |-> LeafErr("no open PR found for branch")]
            ELSE [pr |-> matches[1], err |-> NoErr]

FindPRByBranch(done, resp, branch) ==
    IF branch = ""
    THEN [pr |-> NilPRStatus, err |-> LeafErr("branch name must be provided")]
    ELSE IF done \/ resp.neterr
    THEN [pr |-> NilPRStatus, err |-> LeafErr(IF done THEN "canceled" ELSE "request")]
    ELSE IF resp.status # StatusOK
    THEN [pr |-> NilPRStatus, err |-> LeafErr("GitHub API error")]
    ELSE LET IsMatch(p) == EqualFold(p.Ref, branch)
             matches == SelectSeq(resp.pulls, IsMatch)
         IN CASE Len(matches) = 0 -> [pr |-> NilPRStatus, err |-> LeafErr("no open PR found for branch")]
              [] Len(matches) = 1 -> [pr |-> matches[1], err |-> NoErr]
              [] OTHER -> [pr |-> NilPRStatus, err |-> LeafErr("multiple open PRs found for branch")]

\* Mutant: a PR closed without merge is waited for like an open one.
checkPRState_NoTerminal(got, targetState) ==
    IF got.err # NoErr
    THEN [done |-> FALSE, pr |-> NilPRStatus, err |-> got.err]
    ELSE CASE targetState = "merged" ->
                [done |-> got.pr.Merged, pr |-> got.pr, err |-> NoErr]
           [] targetState = "closed" ->
                [done |-> (got.pr.State = "closed"), pr |-> got.pr, err |-> NoErr]
           [] OTHER -> [done |-> FALSE, pr |-> got.pr, err |-> LeafErr("unsupported target state")]

\* Mutant: the target closed is reached by a merge only.
checkPRState_ClosedByMerge(got, targetState) ==
    IF got.err # NoErr
    THEN [done |-> FALSE, pr |-> NilPRStatus, err |-> got.err]
    ELSE CASE targetState = "merged" ->
                IF got.pr.Merged
                THEN [done |-> TRUE, pr |-> got.pr, err |-> NoErr]
                ELSE IF got.pr.State = "closed" /\ ~got.pr.Merged
                THEN [done |-> FALSE, pr |-> got.pr, err |-> LeafErr("PR was closed without being merged")]
                ELSE [done |-> FALSE, pr |-> got.pr, err |-> NoErr]
           [] targetState = "closed" ->
                [done |-> (got.pr.State = "closed" /\ got.pr.Merged), pr |-> got.pr, err |-> NoErr]
           [] OTHER -> [done |-> FALSE, pr |-> got.pr, err |-> LeafErr("unsupported target state")]

\* checkPRState on the outcome got of GetPRStatus.
checkPRState(got, targetState) ==
    IF got.err # NoErr
    THEN [done |-> FALSE, pr |-> NilPRStatus, err |-> got.err]
    ELSE CASE targetState = "merged" ->
                IF got.pr.Merged
                THEN [done |-> TRUE, pr |-> got.pr, err |-> NoErr]
                ELSE IF got.pr.State = "closed" /\ ~got.pr.Merged
                THEN [done |-> FALSE, pr |-> got.pr, err |-> LeafErr("PR was closed without being merged")]
                ELSE [done |-> FALSE, pr |-> got.pr, err |-> NoErr]
           [] targetState = "closed" ->
                IF got.pr.State = "closed"
                THEN [done |-> TRUE, pr |-> got.pr, err |-> NoErr]
                ELSE [done |-> FALSE, pr |-> got.pr, err |-> NoErr]
           [] OTHER -> [done |-> FALSE, pr |-> got.pr, err |-> LeafErr("unsupported target state")]

\* ------------------------------------------------------------------ StateManager (state.go)
StatusPending == "pending"

StatusRunning == "running"

StatusSuccess == "success"

StatusFailed == "failed"

StatusSkipped == "skipped"

NilStep ==
    [Status |-> "nil", Result |-> "", Error |-> NoErr, StartedAt |-> 0, EndedAt |-> 0, BuildURL |-> ""]

NilParallel ==
    [Steps |-> <<>>, Status |-> "nil"]

NilPR ==
    [HeadBranch |-> "", PRNumber |-> 0, WaitFor |-> "", Status |-> "nil", Error |-> NoErr,
     StartedAt |-> 0, EndedAt |-> 0, HTMLURL |-> "", Title |-> ""]

NilState ==
    [Name |-> 0, Status |-> "nil", Items |-> <<>>, StartedAt |-> 0, EndedAt |-> 0, Error |-> NoErr]

PendingStep ==
    [NilStep EXCEPT !.Status = StatusPending]

\* configToStateItems: the item states of a freshly loaded config.
configToStateItems(c) ==
    [i \in 1..Len(c) |->
        IF IsParallel(c[i])
        THEN [IsParallel |-> TRUE, IsPRWait |-> FALSE, Step |-> NilStep,
              Parallel |-> [Steps |-> [j \in 1..c[i].n |-> PendingStep], Status |-> StatusPending],
              PRWait |-> NilPR]
        ELSE IF IsPRWait(c[i])
        THEN [IsParallel |-> FALSE, IsPRWait |-> TRUE, Step |-> NilStep, Parallel |-> NilParallel,
              PRWait |-> [NilPR EXCEPT !.HeadBranch = c[i].pr.HeadBranch,
                                       !.PRNumber = c[i].pr.PRNumber,
                                       !.WaitFor = c[i].pr.WaitFor,
                                       !.Status = StatusPending,
                                       !.HTMLURL = IF c[i].pr.PRNumber > 0 THEN "U" ELSE "",
                                       !.Title = c[i].pr.ResolvedTitle]]
        ELSE [IsParallel |-> FALSE, IsPRWait |-> FALSE, Step |-> PendingStep,
              Parallel |-> NilParallel, PRWait |-> NilPR]]

\* StartWorkflow: the new WorkflowState object.
StartWorkflow(name, items) ==
    [Name |-> name, Status |-> StatusRunning, Items |-> items, StartedAt |-> 1, EndedAt |-> 0,
     Error |-> NoErr]

updateParallelGroupStatus(pg) ==
    LET anyRunning == \E j \in 1..Len(pg.Steps) : pg.Steps[j].Status = StatusRunning
        anyFailed == \E j \in 1..Len(pg.Steps) : pg.Steps[j].Status = StatusFailed
        allSuccess == \A j \in 1..Len(pg.Steps) :
                          pg.Steps[j].Status \notin {StatusRunning, StatusFailed, StatusPending}
    IN [pg EXCEPT !.Status = IF anyFailed THEN StatusFailed
                             ELSE IF anyRunning THEN StatusRunning
                             ELSE IF allSuccess THEN StatusSuccess
                             ELSE StatusPending]

\* Mutant: an update without a build URL leaves the recorded one.
SetStep_KeepURL(step, status, result, errMsg, buildURL) ==
    [step EXCEPT !.Status = status, !.Result = result, !.Error = errMsg,
                 !.BuildURL = IF buildURL = "" THEN @ ELSE buildURL,
                 !.StartedAt = IF status = StatusRunning /\ step.StartedAt = 0 THEN 1 ELSE @,
                 !.EndedAt = IF status \in {StatusSuccess, StatusFailed, StatusSkipped} THEN 1 ELSE @]

\* The field updates UpdateStepStatus makes on the step it selected.
SetStep(step, status, result, errMsg, buildURL) ==
    [step EXCEPT !.Status = status, !.Result = result, !.Error = errMsg, !.BuildURL = buildURL,
                 !.StartedAt = IF status = StatusRunning /\ step.StartedAt = 0 THEN 1 ELSE @,
                 !.EndedAt = IF status \in {StatusSuccess, StatusFailed, StatusSkipped} THEN 1 ELSE @]

\* UpdateStepStatus on the current state object ws (NilState: sm.current == nil).
UpdateStepStatus(ws, itemIndex, stepIndex, status, result, errMsg, buildURL) ==
    IF ws = NilState \/ itemIndex > Len(ws.Items)
    THEN ws
    ELSE LET item == ws.Items[itemIndex]
         IN IF item.IsParallel /\ item.Parallel # NilParallel
            THEN IF stepIndex > Len(item.Parallel.Steps)
                 THEN ws
                 ELSE LET pg == [item.Parallel EXCEPT
                                    !.Steps[stepIndex] = SetStep(@, status, result, errMsg, buildURL)]
                      IN [ws EXCEPT !.Items[itemIndex].Parallel = updateParallelGroupStatus(pg)]
            ELSE IF item.Step # NilStep
            THEN [ws EXCEPT !.Items[itemIndex].Step = SetStep(@, status, result, errMsg, buildURL)]
            ELSE ws

StartPRWait(ws, itemIndex, headBranch, waitFor, prNumber, htmlURL, title) ==
    IF ws = NilState \/ itemIndex > Len(ws.Items)
    THEN ws
    ELSE IF ~ws.Items[itemIndex].IsPRWait \/ ws.Items[itemIndex].PRWait = NilPR
    THEN ws
    ELSE [ws EXCEPT !.Items[itemIndex].PRWait =
             [@ EXCEPT !.HeadBranch = headBranch, !.WaitFor = waitFor, !.Status = StatusRunning,
                       !.Error = NoErr, !.HTMLURL = htmlURL, !.Title = title,
                       !.PRNumber = prNumber, !.StartedAt = 1, !.EndedAt = 0]]

UpdatePRWaitMetadata(ws, itemIndex, prNumber, htmlURL, title) ==
    IF ws = NilState \/ itemIndex > Len(ws.Items)
    THEN ws
    ELSE IF ~ws.Items[itemIndex].IsPRWait \/ ws.Items[itemIndex].PRWait = NilPR
    THEN ws
    ELSE [ws EXCEPT !.Items[itemIndex].PRWait =
             [@ EXCEPT !.PRNumber = IF prNumber > 0 THEN prNumber ELSE @,
                       !.HTMLURL = IF htmlURL # "" THEN htmlURL ELSE @,
                       !.Title = IF title # "" THEN title ELSE @,
                       !.Status = IF @ = StatusPending THEN StatusRunning ELSE @]]

CompletePRWait(ws, itemIndex) ==
    IF ws = NilState \/ itemIndex > Len(ws.Items)
    THEN ws
    ELSE IF ~ws.Items[itemIndex].IsPRWait \/ ws.Items[itemIndex].PRWait = NilPR
    THEN ws
    ELSE [ws EXCEPT !.Items[itemIndex].PRWait =
             [@ EXCEPT !.Status = StatusSuccess, !.Error = NoErr, !.StartedAt = 1, !.EndedAt = 1]]

\* Mutant: failing the gate forgets the pull request it had resolved.
FailPRWaitAt_Forget(ws, itemIndex, errMsg, now) ==
    IF ws = NilState \/ itemIndex > Len(ws.Items)
    THEN ws
    ELSE IF ~ws.Items[itemIndex].IsPRWait \/ ws.Items[itemIndex].PRWait = NilPR
    THEN ws
    ELSE [ws EXCEPT !.Items[itemIndex].PRWait =
             [@ EXCEPT !.Status = StatusFailed, !.Error = errMsg, !.HTMLURL = "", !.Title = "",
                       !.StartedAt = IF @ = 0 THEN now ELSE @, !.EndedAt = now]]

\* FailPRWait when time.Now() reads now (0 stands for a nil time).
FailPRWaitAt(ws, itemIndex, errMsg, now) ==
    IF ws = NilState \/ itemIndex > Len(ws.Items)
    THEN ws
    ELSE IF ~ws.Items[itemIndex].IsPRWait \/ ws.Items[itemIndex].PRWait = NilPR
    THEN ws
    ELSE [ws EXCEPT !.Items[itemIndex].PRWait =
             [@ EXCEPT !.Status = StatusFailed, !.Error = errMsg,
                       !.StartedAt = IF @ = 0 THEN now ELSE @, !.EndedAt = now]]

\* Within a run the times are not told apart: every time.Now() reads 1.
FailPRWait(ws, itemIndex, errMsg) ==
    FailPRWaitAt(ws, itemIndex, errMsg, 1)

\* Mutant: a failed run's message is not stored.
CompleteWorkflow_NoError(ws, success, errMsg) ==
    IF ws = NilState
    THEN ws
    ELSE IF success
    THEN [ws EXCEPT !.EndedAt = 1, !.Status = StatusSuccess]
    ELSE [ws EXCEPT !.EndedAt = 1, !.Status = StatusFailed]

\* CompleteWorkflow on the current state object.
CompleteWorkflow(ws, success, errMsg) ==
    IF ws = NilState
    THEN ws
    ELSE IF success
    THEN [ws EXCEPT !.EndedAt = 1, !.Status = StatusSuccess]
    ELSE [ws EXCEPT !.EndedAt = 1, !.Status = StatusFailed, !.Error = errMsg]

\* ------------------------------------------------------------------ callbacks (server.go)
OnStepStart(ws, itemIndex, stepIndex, buildURL) ==
    UpdateStepStatus(ws, itemIndex, stepIndex, StatusRunning, "", NoErr, buildURL)

\* Mutant: the callback looks at the error only.
OnStepComplete_ErrOnly(ws, itemIndex, stepIndex, result, err) ==
    UpdateStepStatus(ws, itemIndex, stepIndex,
                     IF err # NoErr THEN StatusFailed ELSE StatusSuccess, result, err, "")

OnStepComplete(ws, itemIndex, stepIndex, result, err) ==
    LET status == IF err # NoErr THEN StatusFailed
                  ELSE IF result # "SUCCESS" THEN StatusFailed
                  ELSE StatusSuccess
    IN UpdateStepStatus(ws, itemIndex, stepIndex, status, result, err, "")

OnPRWaitStart(ws, itemIndex, pr) ==
    StartPRWait(ws, itemIndex, pr.HeadBranch, pr.WaitFor, pr.PRNumber, pr.ResolvedURL, pr.ResolvedTitle)

OnPRWaitProgress(ws, itemIndex, pr) ==
    UpdatePRWaitMetadata(ws, itemIndex, pr.PRNumber, pr.ResolvedURL, pr.ResolvedTitle)

OnPRWaitComplete(ws, itemIndex, pr) ==
    CompletePRWait(UpdatePRWaitMetadata(ws, itemIndex, pr.PRNumber, pr.ResolvedURL, pr.ResolvedTitle),
                   itemIndex)

OnPRWaitFailed(ws, itemIndex, pr, err) ==
    FailPRWait(UpdatePRWaitMetadata(ws, itemIndex, pr.PRNumber, pr.ResolvedURL, pr.ResolvedTitle),
               itemIndex, err)

\* ------------------------------------------------------------------ Logger (logger.go)
Error == 0

Info == 1

Debug == 2

Trace == 3

\* Level.String()
LevelString(l) ==
    CASE l = Error -> "ERROR"
      [] l = Info -> "INFO"
      [] l = Debug -> "DEBUG"
      [] l = Trace -> "TRACE"
      [] OTHER -> "UNKNOWN"

\* fmt.Sprintf("[%s] ", level.String())
Prefix(level) ==
    <<"[", LevelString(level), "] ">>

\* The goroutines that log concurrently, and the calls each of them makes.
Callers == {1, 2}

MaxLogCalls == 1

\* New(level) with no call in progress: stdLog has no prefix and has written
\* nothing.
NewLogger(level) ==
    [level |-> level, prefix |-> <<>>, lines |-> <<>>,
     calls |-> [g \in Callers |-> [pc |-> "idle", level |-> Error, n |-> 0]]]

\* The logger where logging is not looked at.
NoLogger ==
    NewLogger(Info)

\* ------------------------------------------------------------------ state
VARIABLES
    conf,        \* conf[r]: the instances and workflow files request r names, and its inputs
    logger,      \* the Logger: its level, the prefix of its stdLog, the lines written, its callers
    fault,       \* the fault profile of the backends in this behaviour
    prRemote,    \* the pull request on GitHub: open, merged, closed
    req,         \* req[r]: where the RunWorkflow handler of request r is
    cfg,         \* cfg[r]: the config request r loaded (resolved PR fields are mutated in place)
    skip,        \* skip[r]: the request's skipPRCheck
    ctxDone,     \* ctxDone[r]: the root context of run r is cancelled
    eng,         \* eng[r]: the runWorkflow goroutine of run r
    task,        \* task[r][j]: runStep for the single step (j = 1) or for member j of the group
    smCurrent,   \* StateManager.current: 0 (nil) or the run whose state object it points to
    smRunning,   \* StateManager.running
    heap,        \* heap[r]: the WorkflowState object StartWorkflow allocated for request r
    cancelFn,    \* Server.cancelFn: 0 (nil) or the run whose context it cancels
    dbStatus,    \* dbStatus[r]: the status column of the run record of run r
    stopAnswer,  \* what the last StopWorkflow request was answered
    snap,        \* the *WorkflowState a caller of GetState holds
    probe,       \* the last direct call of a function: its name, arguments and return value
    hist         \* hist[r]: what has been observed of run r (not program state)

vars ==
    <<probe, snap, conf, logger, fault, prRemote, req, cfg, skip, ctxDone, eng, task, smCurrent, smRunning, heap,
      cancelFn, dbStatus, stopAnswer, hist>>

\* starts and completes count the OnStepStart and OnStepComplete calls the
\* goroutine has made.
OffTask ==
    [pc |-> "off", result |-> "", err |-> NoErr, starts |-> 0, completes |-> 0]

IdleEngine ==
    [pc |-> "none", i |-> 0, err |-> NoErr, gctxDone |-> FALSE, gerr |-> NoErr,
     prNumber |-> 0, runID |-> 0, finalStatus |-> ""]

NoHist ==
    [starts |-> {}, trig |-> {}, retrig |-> FALSE, firstFail |-> NoErr,
     cancelInPoll |-> FALSE, failedBeforeCancel |-> FALSE, latePoll |-> FALSE,
     lateSibling |-> FALSE, startedWhileRunning |-> FALSE, log |-> <<>>, built |-> {}, sent |-> {}]

\* The faults a workflow is run against: all that can touch it when it has one
\* item, and for longer workflows every non-success result and one fault of
\* each other remote call; the largest group is run against a failing build
\* and a refused trigger.
SeqFaults ==
    {"res_FAILURE", "res_UNSTABLE", "res_ABORTED", "res_EMPTY", "trigger_status", "queue_404",
     "gh_404", "gh_nomatch"}

GroupFaults ==
    {"res_FAILURE", "trigger_status"}

FaultsFor(w) ==
    LET touching == (IF HasKind(w, "step") \/ HasKind(w, "parallel") THEN JenkinsFaults ELSE {})
                    \cup (IF HasKind(w, "prwait") THEN GitHubFaults ELSE {})
    IN IF Len(w) = 1 /\ w[1].kind = "parallel" /\ w[1].n = MaxGroup THEN GroupFaults
       ELSE IF Len(w) = 1 THEN touching \cup DBFaults
       ELSE touching \cap SeqFaults

\* No function has been called directly.
NoProbe ==
    [fn |-> "none", in |-> <<>>, out |-> <<>>]

\* No GetState call has returned a state yet.
NoSnap ==
    [taken |-> FALSE, fields |-> NilState, itemsRef |-> 0, seen |-> <<>>]

\* One RunWorkflow request for any workflow.
Init ==
    /\ snap = NoSnap
    /\ logger = NoLogger
    /\ probe = NoProbe
    /\ cfg \in {c \in [Runs -> Workflows \cup {<<>>}] : c[1] # <<>> /\ c[2] = <<>>}
    /\ fault \in FaultsFor(cfg[1])
    /\ conf = [r \in Runs |-> ConfOf(cfg[r])]
    /\ prRemote \in (IF HasKind(cfg[1], "prwait") THEN {"open", "merged", "closed"} ELSE {"open"})
    /\ skip \in {s \in [Runs -> BOOLEAN] : (s[1] => HasKind(cfg[1], "prwait")) /\ ~s[2]}
    /\ req = [r \in Runs |-> IF r = 1 THEN "pending" ELSE "none"]
    /\ ctxDone = [r \in Runs |-> FALSE]
    /\ eng = [r \in Runs |-> IdleEngine]
    /\ task = [r \in Runs |-> [j \in 1..MaxGroup |-> OffTask]]
    /\ smCurrent = 0
    /\ smRunning = FALSE
    /\ heap = [r \in Runs |-> NilState]
    /\ cancelFn = 0
    /\ dbStatus = [r \in Runs |-> "none"]
    /\ stopAnswer = "none"
    /\ hist = [r \in Runs |-> NoHist]

\* sm.current as the callbacks see it.
Current ==
    IF smCurrent = 0 THEN NilState ELSE heap[smCurrent]

\* A StateManager method whose result on the current object is ws.
SetCurrent(ws) ==
    heap' = IF smCurrent = 0 THEN heap ELSE [heap EXCEPT ![smCurrent] = ws]

\* ------------------------------------------------------------------ Server handlers
\* RunWorkflow, first part: the IsRunning check (409 when a run is in progress).
ReqCheck(r) ==
    /\ req[r] = "pending"
    /\ req' = [req EXCEPT ![r] = IF smRunning THEN "rejected" ELSE "accepted"]
    /\ UNCHANGED <<probe, snap, conf, logger, fault, prRemote, cfg, skip, ctxDone, eng, task, smCurrent, smRunning, heap,
                   cancelFn, dbStatus, stopAnswer, hist>>

\* RunWorkflow, second part: config loaded, StartWorkflow under sm.mu.
ReqStart(r) ==
    /\ req[r] = "accepted"
    /\ req' = [req EXCEPT ![r] = "started"]
    /\ heap' = [heap EXCEPT ![r] = StartWorkflow(r, configToStateItems(cfg[r]))]
    /\ smCurrent' = r
    /\ smRunning' = TRUE
    /\ hist' = [hist EXCEPT ![r].startedWhileRunning = smRunning]
    /\ UNCHANGED <<probe, snap, conf, logger, fault, prRemote, cfg, skip, ctxDone, eng, task, cancelFn, dbStatus, stopAnswer>>

\* RunWorkflow, third part: cancelFn stored under s.mu, the goroutine launched.
ReqLaunch(r) ==
    /\ req[r] = "started"
    /\ req' = [req EXCEPT ![r] = "done"]
    /\ cancelFn' = r
    /\ eng' = [eng EXCEPT ![r].pc = "create"]
    /\ UNCHANGED <<probe, snap, conf, logger, fault, prRemote, cfg, skip, ctxDone, task, smCurrent, smRunning, heap,
                   dbStatus, stopAnswer, hist>>

\* Is run r inside a poll loop (queue, build or PR state)?
InPoll(r) ==
    \/ eng[r].pc \in {"step", "group"} /\ \E j \in 1..MaxGroup : task[r][j].pc \in {"queue", "build"}
    \/ eng[r].pc \in {"pr_check", "pr_poll"}

TaskFailed(t) ==
    t.pc \in {"completed", "returned"} /\ (t.err # NoErr \/ t.result # "SUCCESS")

\* StopWorkflow, under s.mu.
StopWorkflow ==
    /\ IF cancelFn # 0
       THEN /\ ctxDone' = [ctxDone EXCEPT ![cancelFn] = TRUE]
            /\ cancelFn' = 0
            /\ stopAnswer' = "stopped"
            /\ hist' = [hist EXCEPT
                   ![cancelFn].cancelInPoll = @ \/ (~ctxDone[cancelFn] /\ InPoll(cancelFn)),
                   ![cancelFn].failedBeforeCancel =
                       @ \/ (~ctxDone[cancelFn] /\ \E j \in 1..MaxGroup : TaskFailed(task[cancelFn][j]))]
       ELSE /\ stopAnswer' = "not found"
            /\ UNCHANGED <<ctxDone, cancelFn, hist>>
    /\ UNCHANGED <<probe, snap, conf, logger, fault, prRemote, req, cfg, skip, eng, task, smCurrent, smRunning, heap, dbStatus>>

\* ------------------------------------------------------------------ runWorkflow, RunWithCallbacks
\* Mutant: a run whose record could not be created is given up.
RunCreate_GiveUp(r) ==
    /\ eng[r].pc = "create"
    /\ \E ok \in (IF fault = "db_create" THEN BOOLEAN ELSE {TRUE}) :
          /\ eng' = [eng EXCEPT ![r].pc = IF ok THEN "walk" ELSE "returned",
                                ![r].i = 1,
                                ![r].err = IF ok THEN NoErr ELSE LeafErr("create run"),
                                ![r].runID = IF ok THEN r ELSE 0]
          /\ dbStatus' = [dbStatus EXCEPT ![r] = IF ok THEN "running" ELSE @]
    /\ UNCHANGED <<probe, snap, conf, logger, fault, prRemote, req, cfg, skip, ctxDone, task, smCurrent, smRunning, heap,
                   cancelFn, stopAnswer, hist>>

\* runWorkflow up to the engine call: the run record is created (runID stays 0
\* when the write fails).
RunCreate(r) ==
    /\ eng[r].pc = "create"
    /\ \E ok \in (IF fault = "db_create" THEN BOOLEAN ELSE {TRUE}) :
          /\ eng' = [eng EXCEPT ![r].pc = "walk", ![r].i = 1, ![r].runID = IF ok THEN r ELSE 0]
          /\ dbStatus' = [dbStatus EXCEPT ![r] = IF ok THEN "running" ELSE @]
    /\ UNCHANGED <<probe, snap, conf, logger, fault, prRemote, req, cfg, skip, ctxDone, task, smCurrent, smRunning, heap,
                   cancelFn, stopAnswer, hist>>

\* The head of the loop over cfg.Workflow: the next item is dispatched by kind,
\* or the loop is over and RunWithCallbacks returns nil.
EngDispatch(r) ==
    /\ eng[r].pc = "walk"
    /\ IF eng[r].i > Len(cfg[r])
       THEN /\ eng' = [eng EXCEPT ![r].pc = "returned", ![r].err = NoErr]
            /\ UNCHANGED <<task, hist>>
       ELSE LET item == cfg[r][eng[r].i]
            IN IF IsPRWait(item)
               THEN /\ eng' = [eng EXCEPT ![r].pc = IF skip[r] THEN "pr_skip" ELSE "pr_begin"]
                    /\ UNCHANGED <<task, hist>>
               ELSE IF IsParallel(item)
               THEN /\ eng' = [eng EXCEPT ![r].pc = "group", ![r].gctxDone = FALSE, ![r].gerr = NoErr]
                    /\ task' = [task EXCEPT ![r] =
                           [j \in 1..MaxGroup |-> IF j <= item.n THEN [OffTask EXCEPT !.pc = "idle"]
                                                  ELSE OffTask]]
                    /\ hist' = [hist EXCEPT ![r].firstFail = NoErr]
               ELSE /\ eng' = [eng EXCEPT ![r].pc = "step"]
                    /\ task' = [task EXCEPT ![r][1] = [OffTask EXCEPT !.pc = "idle"]]
                    /\ UNCHANGED hist
    /\ UNCHANGED <<probe, snap, conf, logger, fault, prRemote, req, cfg, skip, ctxDone, smCurrent, smRunning, heap, cancelFn,
                   dbStatus, stopAnswer>>

\* The context runStep runs under: gctx inside a group, the run's ctx otherwise.
\* gctx is done when errgroup cancelled it or when its parent is done.
CtxDone(r) ==
    ctxDone[r] \/ (eng[r].pc = "group" /\ eng[r].gctxDone)

Active(r, j) ==
    /\ eng[r].pc \in {"step", "group"}
    /\ task[r][j].pc # "off"

\* callbacks.OnStepStart(i, j, name, "") ahead of runStep.
TaskStart(r, j) ==
    /\ Active(r, j)
    /\ task[r][j].pc = "idle"
    /\ task' = [task EXCEPT ![r][j].pc = "trigger", ![r][j].starts = @ + 1]
    /\ SetCurrent(OnStepStart(Current, eng[r].i, j, ""))
    /\ hist' = [hist EXCEPT ![r].starts = @ \cup {eng[r].i}]
    /\ UNCHANGED <<probe, snap, conf, logger, fault, prRemote, req, cfg, skip, ctxDone, eng, smCurrent, smRunning, cancelFn,
                   dbStatus, stopAnswer>>

\* Mutant: a step whose runStep returned an error is run again.
TaskEnds_Retry(r, j, result, err) ==
    IF err # NoErr /\ ~IsCanceled(err)
    THEN /\ task' = [task EXCEPT ![r][j].pc = "trigger"]
         /\ UNCHANGED heap
    ELSE /\ task' = [task EXCEPT ![r][j] = [@ EXCEPT !.pc = "completed", !.result = result,
                                                      !.err = err, !.completes = @ + 1]]
         /\ SetCurrent(OnStepComplete(Current, eng[r].i, j, result, err))

\* Mutant: a step that ended by cancellation is not reported complete.
TaskEnds_Silent(r, j, result, err) ==
    /\ task' = [task EXCEPT ![r][j] = [@ EXCEPT !.pc = "completed", !.result = result, !.err = err,
                                                 !.completes = IF IsCanceled(err) THEN @ ELSE @ + 1]]
    /\ SetCurrent(IF IsCanceled(err) THEN Current
                  ELSE OnStepComplete(Current, eng[r].i, j, result, err))

\* Mutant: the complete event of a step is emitted twice.
TaskEnds_Twice(r, j, result, err) ==
    /\ task' = [task EXCEPT ![r][j] = [@ EXCEPT !.pc = "completed", !.result = result, !.err = err,
                                                 !.completes = @ + 2]]
    /\ SetCurrent(OnStepComplete(OnStepComplete(Current, eng[r].i, j, result, err),
                                 eng[r].i, j, result, err))

\* runStep returns (result, err): the same goroutine stores it in results[j]
\* and calls callbacks.OnStepComplete(i, j, name, result, err).
TaskEnds(r, j, result, err) ==
    /\ task' = [task EXCEPT ![r][j] = [@ EXCEPT !.pc = "completed", !.result = result, !.err = err,
                                                 !.completes = @ + 1]]
    /\ SetCurrent(OnStepComplete(Current, eng[r].i, j, result, err))

\* runStep, 1: TriggerJob.
TaskTrigger(r, j) ==
    /\ Active(r, j)
    /\ task[r][j].pc = "trigger"
    /\ LET step == StepAt(conf[r], eng[r].i, j)
       IN IF step.Instance \notin DOMAIN conf[r].Instances
          THEN /\ TaskEnds(r, j, "", LeafErr("unknown instance"))
               /\ UNCHANGED hist
          ELSE /\ \E resp \in TriggerResponses(fault) :
                     LET out == TriggerJob(CtxDone(r), resp)
                     IN IF out.err # NoErr
                        THEN TaskEnds(r, j, "", [out.err EXCEPT !.op = "failed to trigger"])
                        ELSE /\ task' = [task EXCEPT ![r][j].pc = "queue"]
                             /\ UNCHANGED heap
               /\ hist' = [hist EXCEPT
                      ![r].trig = IF CtxDone(r) THEN @ ELSE @ \cup {<<eng[r].i, j>>},
                      ![r].sent = IF CtxDone(r) THEN @ ELSE @ \cup {<<eng[r].i, j, step.Params>>},
                      ![r].retrig = @ \/ (~CtxDone(r) /\ <<eng[r].i, j>> \in hist[r].trig),
                      ![r].lateSibling = @ \/ (CtxDone(r) /\ task'[r][j].pc = "queue")]
    /\ UNCHANGED <<probe, snap, conf, logger, fault, prRemote, req, cfg, skip, ctxDone, eng, smCurrent, smRunning,
                   cancelFn, dbStatus, stopAnswer>>

\* The branches a select on ctx.Done() and the ticker can take.
SelectBranches(done) ==
    IF done THEN {"done", "tick"} ELSE {"tick"}

\* runStep, 2: one turn of WaitForQueue's loop; when it returns the build URL,
\* callbacks.OnStepStart(i, j, name, buildURL) follows.
TaskQueuePoll(r, j) ==
    /\ Active(r, j)
    /\ task[r][j].pc = "queue"
    /\ \E resp \in QueueResponses(fault), branch \in SelectBranches(CtxDone(r)) :
          LET out == IF branch = "done"
                     THEN [again |-> FALSE, url |-> "", err |-> LeafErr("canceled")]
                     ELSE PollQueue(CtxDone(r), resp)
          IN /\ IF out.err # NoErr
                THEN TaskEnds(r, j, "", [out.err EXCEPT !.op = "failed waiting for queue"])
                ELSE IF out.again
                THEN UNCHANGED <<task, heap>>
                ELSE /\ task' = [task EXCEPT ![r][j].pc = "build",
                                               ![r][j].starts = IF out.url # "" THEN @ + 1 ELSE @]
                     /\ SetCurrent(IF out.url # ""
                                   THEN OnStepStart(Current, eng[r].i, j, out.url)
                                   ELSE Current)
             /\ hist' = [hist EXCEPT
                    ![r].latePoll = @ \/ (ctxDone[r] /\ ~IsCanceled(out.err)),
                    ![r].lateSibling = @ \/ (CtxDone(r) /\ ~IsCanceled(out.err))]
    /\ UNCHANGED <<probe, snap, conf, logger, fault, prRemote, req, cfg, skip, ctxDone, eng, smCurrent, smRunning,
                   cancelFn, dbStatus, stopAnswer>>

\* runStep, 3: one turn of WaitForBuild's loop.
TaskBuildPoll(r, j) ==
    /\ Active(r, j)
    /\ task[r][j].pc = "build"
    /\ \E resp \in BuildResponses(fault), branch \in SelectBranches(CtxDone(r)) :
          LET out == IF branch = "done"
                     THEN [again |-> FALSE, result |-> "", err |-> LeafErr("canceled")]
                     ELSE PollBuild(CtxDone(r), resp)
          IN /\ IF out.err # NoErr
                THEN TaskEnds(r, j, "", [out.err EXCEPT !.op = "failed waiting for build"])
                ELSE IF out.again
                THEN UNCHANGED <<task, heap>>
                ELSE TaskEnds(r, j, out.result, NoErr)
             /\ hist' = [hist EXCEPT
                    ![r].latePoll = @ \/ (ctxDone[r] /\ ~IsCanceled(out.err)),
                    ![r].lateSibling = @ \/ (CtxDone(r) /\ ~IsCanceled(out.err)),
                    ![r].built = IF out.err = NoErr /\ ~out.again THEN @ \cup {out.result} ELSE @]
    /\ UNCHANGED <<probe, snap, conf, logger, fault, prRemote, req, cfg, skip, ctxDone, eng, smCurrent, smRunning,
                   cancelFn, dbStatus, stopAnswer>>

\* fmt.Errorf("step %q failed with result: %s", name, result)
ResultErr(result) ==
    [LeafErr("failed with result") EXCEPT !.result = result]

\* Mutant: a member's goroutine returns runStep's error only.
MemberReturn_ErrOnly(i, j, t) ==
    IF t.err # NoErr THEN [t.err EXCEPT !.step = <<i, j>>] ELSE NoErr

\* What the goroutine of member j returns to the errgroup.
MemberReturn(i, j, t) ==
    IF t.err # NoErr THEN [t.err EXCEPT !.step = <<i, j>>]
    ELSE IF t.result # "SUCCESS" THEN [ResultErr(t.result) EXCEPT !.step = <<i, j>>]
    ELSE NoErr

\* Mutant: the group keeps the last error returned.
ErrOnce_Last(gerr, ret) ==
    IF ret # NoErr THEN ret ELSE gerr

\* errgroup: errOnce keeps the first non-nil error.
ErrOnce(gerr, ret) ==
    IF gerr = NoErr THEN ret ELSE gerr

\* The goroutine of member j returns; errgroup records the first error and cancels gctx.
TaskReturn(r, j) ==
    /\ eng[r].pc = "group"
    /\ task[r][j].pc = "completed"
    /\ LET ret == MemberReturn(eng[r].i, j, task[r][j])
       IN /\ eng' = [eng EXCEPT ![r].gerr = ErrOnce(@, ret),
                                ![r].gctxDone = @ \/ ret # NoErr]
          /\ hist' = [hist EXCEPT ![r].firstFail = IF @ = NoErr THEN ret ELSE @]
    /\ task' = [task EXCEPT ![r][j].pc = "returned"]
    /\ UNCHANGED <<probe, snap, conf, logger, fault, prRemote, req, cfg, skip, ctxDone, smCurrent, smRunning, heap, cancelFn,
                   dbStatus, stopAnswer>>

\* Mutant: the engine returns runStep's error only.
StepOutcome_ErrOnly(i, t) ==
    IF t.err # NoErr THEN [t.err EXCEPT !.wrap = "step", !.item = i] ELSE NoErr

\* What RunWithCallbacks does with a single step's outcome.
StepOutcome(i, t) ==
    IF t.err # NoErr THEN [t.err EXCEPT !.wrap = "step", !.item = i]
    ELSE IF t.result # "SUCCESS" THEN [ResultErr(t.result) EXCEPT !.wrap = "step", !.item = i]
    ELSE NoErr

\* Single step: after OnStepComplete the engine returns the error or advances.
EngStepDone(r) ==
    /\ eng[r].pc = "step"
    /\ task[r][1].pc = "completed"
    /\ LET e == StepOutcome(eng[r].i, task[r][1])
       IN eng' = [eng EXCEPT ![r].pc = IF e # NoErr THEN "returned" ELSE "walk",
                             ![r].err = e,
                             ![r].i = IF e # NoErr THEN @ ELSE @ + 1]
    /\ task' = [task EXCEPT ![r][1] = OffTask]
    /\ UNCHANGED <<probe, snap, conf, logger, fault, prRemote, req, cfg, skip, ctxDone, smCurrent, smRunning, heap, cancelFn,
                   dbStatus, stopAnswer, hist>>

\* Mutant: the error of g.Wait() is dropped.
GroupOutcome_Nil(i, gerr) ==
    NoErr

\* What RunWithCallbacks does with the error g.Wait() returned.
GroupOutcome(i, gerr) ==
    IF gerr # NoErr THEN [gerr EXCEPT !.wrap = "parallel group", !.item = i] ELSE NoErr

\* Mutant: Wait returns when the first goroutine has returned.
WaitReturns_Any(ts) ==
    \E j \in 1..MaxGroup : ts[j].pc = "returned"

\* Mutant: Wait returns as soon as a goroutine has returned a failure.
WaitReturns_FailFast(ts) ==
    \/ \A j \in 1..MaxGroup : ts[j].pc \in {"off", "returned"}
    \/ \E j \in 1..MaxGroup : ts[j].pc = "returned" /\ TaskFailed(ts[j])

\* g.Wait() returns once every goroutine started with g.Go has returned.
WaitReturns(ts) ==
    \A j \in 1..MaxGroup : ts[j].pc \in {"off", "returned"}

\* g.Wait(): every member goroutine has returned.
EngGroupWait(r) ==
    /\ eng[r].pc = "group"
    /\ WaitReturns(task[r])
    /\ LET e == GroupOutcome(eng[r].i, eng[r].gerr)
       IN eng' = [eng EXCEPT ![r].pc = IF e # NoErr THEN "returned" ELSE "walk",
                             ![r].err = e,
                             ![r].i = IF e # NoErr THEN @ ELSE @ + 1]
    /\ task' = [task EXCEPT ![r] = [j \in 1..MaxGroup |-> OffTask]]
    /\ UNCHANGED <<probe, snap, conf, logger, fault, prRemote, req, cfg, skip, ctxDone, smCurrent, smRunning, heap, cancelFn,
                   dbStatus, stopAnswer, hist>>

\* ------------------------------------------------------------------ PR gate
ThePRCfg(r) ==
    cfg[r][eng[r].i].pr

\* What is recorded of a PR gate: the events its callbacks receive and the
\* calls made on the GitHub client with their outcomes, in order.
Ev(i, kind) ==
    [item |-> i, kind |-> kind]

\* How a call of checkPRState came out.
CheckKind(out) ==
    IF out.err # NoErr
    THEN (IF out.err.cause = "PR was closed without being merged"
          THEN "check_closed_unmerged" ELSE "check_err")
    ELSE IF out.done THEN "check_done" ELSE "check_wait"

\* The record of a check: a final status is reported as progress.
CheckEvs(i, out) ==
    <<Ev(i, CheckKind(out))>> \o (IF out.err = NoErr /\ out.done THEN <<Ev(i, "progress")>> ELSE <<>>)

\* The record of one turn of the wait loop; turns that repeat the last one
\* (tick, still waiting) are recorded once.
TickEvs(log, i, out) ==
    LET n == Len(log)
        again == /\ CheckKind(out) = "check_wait"
                 /\ n >= 2
                 /\ log[n - 1] = Ev(i, "tick")
                 /\ log[n] = Ev(i, "check_wait")
    IN IF again THEN log ELSE log \o <<Ev(i, "tick")>> \o CheckEvs(i, out)

\* skipPRCheck: OnPRWaitStart ...
PRSkipStart(r) ==
    /\ eng[r].pc = "pr_skip"
    /\ eng' = [eng EXCEPT ![r].pc = "pr_skipped"]
    /\ SetCurrent(OnPRWaitStart(Current, eng[r].i, ThePRCfg(r)))
    /\ hist' = [hist EXCEPT ![r].starts = @ \cup {eng[r].i},
                            ![r].log = Append(@, Ev(eng[r].i, "start"))]
    /\ UNCHANGED <<probe, snap, conf, logger, fault, prRemote, req, cfg, skip, ctxDone, task, smCurrent, smRunning, cancelFn,
                   dbStatus, stopAnswer>>

\* Mutant: a skipped gate is passed without its complete event.
PRSkipComplete_Silent(r) ==
    /\ eng[r].pc = "pr_skipped"
    /\ eng' = [eng EXCEPT ![r].pc = "walk", ![r].i = @ + 1]
    /\ UNCHANGED <<probe, snap, conf, logger, fault, prRemote, req, cfg, skip, ctxDone, task, smCurrent, smRunning, heap,
                   cancelFn, dbStatus, stopAnswer, hist>>

\* ... then OnPRWaitComplete, and the loop goes on.
PRSkipComplete(r) ==
    /\ eng[r].pc = "pr_skipped"
    /\ eng' = [eng EXCEPT ![r].pc = "walk", ![r].i = @ + 1]
    /\ SetCurrent(OnPRWaitComplete(Current, eng[r].i, ThePRCfg(r)))
    /\ hist' = [hist EXCEPT ![r].log = Append(@, Ev(eng[r].i, "complete"))]
    /\ UNCHANGED <<probe, snap, conf, logger, fault, prRemote, req, cfg, skip, ctxDone, task, smCurrent, smRunning, cancelFn,
                   dbStatus, stopAnswer>>

\* Mutant: the gate goes to the metadata phase without resolving the branch.
PRBegin_NoResolve(r) ==
    /\ eng[r].pc = "pr_begin"
    /\ eng' = [eng EXCEPT ![r].pc = "pr_meta", ![r].prNumber = ThePRCfg(r).PRNumber]
    /\ SetCurrent(OnPRWaitStart(Current, eng[r].i, ThePRCfg(r)))
    /\ hist' = [hist EXCEPT ![r].starts = @ \cup {eng[r].i},
                            ![r].log = Append(@, Ev(eng[r].i, "start"))]
    /\ UNCHANGED <<probe, snap, conf, logger, fault, prRemote, req, cfg, skip, ctxDone, task, smCurrent, smRunning, cancelFn,
                   dbStatus, stopAnswer>>

\* runPRWait up to OnPRWaitStart.
PRBegin(r) ==
    /\ eng[r].pc = "pr_begin"
    /\ IF ~conf[r].GitHub
       THEN /\ eng' = [eng EXCEPT ![r].pc = "pr_err",
                                  ![r].err = LeafErr("github configuration is required")]
            /\ UNCHANGED <<heap, hist>>
       ELSE /\ eng' = [eng EXCEPT ![r].pc = "pr_resolve", ![r].prNumber = ThePRCfg(r).PRNumber]
            /\ SetCurrent(OnPRWaitStart(Current, eng[r].i, ThePRCfg(r)))
            /\ hist' = [hist EXCEPT ![r].starts = @ \cup {eng[r].i},
                                    ![r].log = Append(@, Ev(eng[r].i, "start"))]
    /\ UNCHANGED <<probe, snap, conf, logger, fault, prRemote, req, cfg, skip, ctxDone, task, smCurrent, smRunning, cancelFn,
                   dbStatus, stopAnswer>>

\* runPRWait: the branch is resolved to a PR number when none is given.
PRResolve(r) ==
    /\ eng[r].pc = "pr_resolve"
    /\ LET pr == ThePRCfg(r)
       IN IF eng[r].prNumber = 0 /\ pr.HeadBranch # ""
          THEN \E resp \in ListResponses(fault, prRemote) :
                  LET out == FindPRByBranch(ctxDone[r], resp, pr.HeadBranch)
                      newpr == [pr EXCEPT !.PRNumber = out.pr.Number,
                                          !.ResolvedURL = out.pr.HTMLURL,
                                          !.ResolvedTitle = out.pr.Title]
                  IN IF out.err # NoErr
                     THEN /\ eng' = [eng EXCEPT ![r].pc = "pr_err",
                                        ![r].err = [out.err EXCEPT !.op = "failed to resolve branch"]]
                          /\ hist' = [hist EXCEPT ![r].log = Append(@, Ev(eng[r].i, "find_err"))]
                          /\ UNCHANGED <<cfg, heap>>
                     ELSE /\ eng' = [eng EXCEPT ![r].pc = IF out.pr.Number = 0 THEN "pr_err" ELSE "pr_meta",
                                        ![r].prNumber = out.pr.Number,
                                        ![r].err = IF out.pr.Number = 0
                                                   THEN LeafErr("no PR number resolved for wait step")
                                                   ELSE NoErr]
                          /\ cfg' = [cfg EXCEPT ![r][eng[r].i].pr = newpr]
                          /\ SetCurrent(OnPRWaitProgress(Current, eng[r].i, newpr))
                          /\ hist' = [hist EXCEPT ![r].log =
                                 @ \o <<Ev(eng[r].i, "find_ok"), Ev(eng[r].i, "progress")>>]
          ELSE /\ eng' = [eng EXCEPT ![r].pc = IF eng[r].prNumber = 0 THEN "pr_err" ELSE "pr_meta",
                             ![r].err = IF eng[r].prNumber = 0
                                        THEN LeafErr("no PR number resolved for wait step")
                                        ELSE NoErr]
               /\ UNCHANGED <<cfg, heap, hist>>
    /\ UNCHANGED <<probe, snap, conf, logger, fault, prRemote, req, skip, ctxDone, task, smCurrent, smRunning, cancelFn,
                   dbStatus, stopAnswer>>

\* runPRWait: title and URL are fetched unless both are already known.
PRMeta(r) ==
    /\ eng[r].pc = "pr_meta"
    /\ LET pr == ThePRCfg(r)
       IN IF pr.ResolvedURL = "" \/ pr.ResolvedTitle = ""
          THEN \E resp \in GetPRResponses(fault, prRemote) :
                  LET out == GetPRStatus(ctxDone[r], resp)
                      newpr == [pr EXCEPT !.ResolvedURL = out.pr.HTMLURL,
                                          !.ResolvedTitle = out.pr.Title]
                  IN IF out.err # NoErr
                     THEN /\ eng' = [eng EXCEPT ![r].pc = "pr_err",
                                        ![r].err = [out.err EXCEPT !.op = "failed to fetch PR metadata"]]
                          /\ hist' = [hist EXCEPT ![r].log = Append(@, Ev(eng[r].i, "get_err"))]
                          /\ UNCHANGED <<cfg, heap>>
                     ELSE /\ eng' = [eng EXCEPT ![r].pc = "pr_check"]
                          /\ cfg' = [cfg EXCEPT ![r][eng[r].i].pr = newpr]
                          /\ SetCurrent(OnPRWaitProgress(Current, eng[r].i, newpr))
                          /\ hist' = [hist EXCEPT ![r].log =
                                 @ \o <<Ev(eng[r].i, "get_ok"), Ev(eng[r].i, "progress")>>]
          ELSE /\ eng' = [eng EXCEPT ![r].pc = "pr_check"]
               /\ UNCHANGED <<cfg, heap, hist>>
    /\ UNCHANGED <<probe, snap, conf, logger, fault, prRemote, req, skip, ctxDone, task, smCurrent, smRunning, cancelFn,
                   dbStatus, stopAnswer>>

\* WaitForPRStatus returned out to runPRWait: the error is handed up as it is, a
\* final status refreshes the resolved fields and is reported as progress.
PRWaitReturn(r, out) ==
    LET pr == ThePRCfg(r)
        newpr == [pr EXCEPT !.ResolvedURL = out.pr.HTMLURL, !.ResolvedTitle = out.pr.Title]
    IN IF out.err # NoErr
       THEN /\ eng' = [eng EXCEPT ![r].pc = "pr_err", ![r].err = out.err]
            /\ UNCHANGED <<cfg, heap>>
       ELSE IF out.done
       THEN /\ eng' = [eng EXCEPT ![r].pc = "pr_ok"]
            /\ cfg' = [cfg EXCEPT ![r][eng[r].i].pr = newpr]
            /\ SetCurrent(OnPRWaitProgress(Current, eng[r].i, newpr))
       ELSE /\ eng' = [eng EXCEPT ![r].pc = "pr_poll"]
            /\ UNCHANGED <<cfg, heap>>

\* Mutant: the wait starts with the loop, its first check on the first tick.
PRCheck_TickFirst(r) ==
    /\ eng[r].pc = "pr_check"
    /\ eng' = [eng EXCEPT ![r].pc = "pr_poll"]
    /\ UNCHANGED <<probe, snap, conf, logger, fault, prRemote, req, cfg, skip, ctxDone, task, smCurrent, smRunning,
                   heap, cancelFn, dbStatus, stopAnswer, hist>>

\* WaitForPRStatus: the check made at once, before the loop.
PRCheck(r) ==
    /\ eng[r].pc = "pr_check"
    /\ \E resp \in GetPRResponses(fault, prRemote) :
          LET out == checkPRState(GetPRStatus(ctxDone[r], resp), ThePRCfg(r).WaitFor)
          IN /\ PRWaitReturn(r, out)
             /\ hist' = [hist EXCEPT ![r].log = @ \o CheckEvs(eng[r].i, out)]
    /\ UNCHANGED <<probe, snap, conf, logger, fault, prRemote, req, skip, ctxDone, task, smCurrent, smRunning, cancelFn,
                   dbStatus, stopAnswer>>

\* WaitForPRStatus: one turn of the loop.
PRPoll(r) ==
    /\ eng[r].pc = "pr_poll"
    /\ \E resp \in GetPRResponses(fault, prRemote), branch \in SelectBranches(ctxDone[r]) :
          LET out == IF branch = "done"
                     THEN [done |-> FALSE, pr |-> NilPRStatus, err |-> LeafErr("canceled")]
                     ELSE checkPRState(GetPRStatus(ctxDone[r], resp), ThePRCfg(r).WaitFor)
          IN /\ PRWaitReturn(r, out)
             /\ hist' = [hist EXCEPT
                    ![r].latePoll = @ \/ (ctxDone[r] /\ ~IsCanceled(out.err)),
                    ![r].log = IF branch = "tick" THEN TickEvs(@, eng[r].i, out) ELSE @]
    /\ UNCHANGED <<probe, snap, conf, logger, fault, prRemote, req, skip, ctxDone, task, smCurrent, smRunning, cancelFn,
                   dbStatus, stopAnswer>>

\* runPRWait returned an error: OnPRWaitFailed, and RunWithCallbacks returns it wrapped.
PRFail(r) ==
    /\ eng[r].pc = "pr_err"
    /\ eng' = [eng EXCEPT ![r].pc = "returned",
                          ![r].err = [@ EXCEPT !.wrap = "PR wait", !.item = eng[r].i]]
    /\ SetCurrent(OnPRWaitFailed(Current, eng[r].i, ThePRCfg(r), eng[r].err))
    /\ hist' = [hist EXCEPT ![r].log = Append(@, Ev(eng[r].i, "failed"))]
    /\ UNCHANGED <<probe, snap, conf, logger, fault, prRemote, req, cfg, skip, ctxDone, task, smCurrent, smRunning, cancelFn,
                   dbStatus, stopAnswer>>

\* runPRWait returned nil: OnPRWaitComplete, and the loop goes on.
PRDone(r) ==
    /\ eng[r].pc = "pr_ok"
    /\ eng' = [eng EXCEPT ![r].pc = "walk", ![r].i = @ + 1]
    /\ SetCurrent(OnPRWaitComplete(Current, eng[r].i, ThePRCfg(r)))
    /\ hist' = [hist EXCEPT ![r].log = Append(@, Ev(eng[r].i, "complete"))]
    /\ UNCHANGED <<probe, snap, conf, logger, fault, prRemote, req, cfg, skip, ctxDone, task, smCurrent, smRunning, cancelFn,
                   dbStatus, stopAnswer>>

\* The pull request is merged or closed on GitHub while a run waits for it.
PRChange ==
    /\ prRemote = "open"
    /\ \E r \in Runs : eng[r].pc \in {"pr_begin", "pr_resolve", "pr_meta", "pr_check", "pr_poll"}
    /\ prRemote' \in {"merged", "closed"}
    /\ UNCHANGED <<probe, snap, conf, logger, fault, req, cfg, skip, ctxDone, eng, task, smCurrent, smRunning, heap, cancelFn,
                   dbStatus, stopAnswer, hist>>

\* ------------------------------------------------------------------ runWorkflow, the end
\* "Determine final status"
FinalStatus(err, ctxCancelled) ==
    IF err = NoErr THEN "success"
    ELSE IF ctxCancelled THEN "stopped"
    ELSE "failed"

\* runWorkflow after the engine returned: the final status is computed from
\* err and ctx.Err() and written to the run record.
RunFinalize(r) ==
    /\ eng[r].pc = "returned"
    /\ LET fs == FinalStatus(eng[r].err, ctxDone[r])
       IN /\ eng' = [eng EXCEPT ![r].pc = "finalized", ![r].finalStatus = fs]
          /\ \E ok \in (IF fault = "db_update" THEN BOOLEAN ELSE {TRUE}) :
                dbStatus' = [dbStatus EXCEPT ![r] = IF eng[r].runID > 0 /\ ok THEN fs ELSE @]
    /\ UNCHANGED <<probe, snap, conf, logger, fault, prRemote, req, cfg, skip, ctxDone, task, smCurrent, smRunning, heap,
                   cancelFn, stopAnswer, hist>>

\* s.state.CompleteWorkflow(err == nil, err.Error())
RunComplete(r) ==
    /\ eng[r].pc = "finalized"
    /\ eng' = [eng EXCEPT ![r].pc = "completed"]
    /\ SetCurrent(CompleteWorkflow(Current, eng[r].err = NoErr, eng[r].err))
    /\ smRunning' = IF smCurrent = 0 THEN smRunning ELSE FALSE
    /\ UNCHANGED <<probe, snap, conf, logger, fault, prRemote, req, cfg, skip, ctxDone, task, smCurrent, cancelFn, dbStatus,
                   stopAnswer, hist>>

\* The deferred function of runWorkflow: s.cancelFn = nil under s.mu.
RunExit(r) ==
    /\ eng[r].pc = "completed"
    /\ eng' = [eng EXCEPT ![r].pc = "exit"]
    /\ cancelFn' = 0
    /\ UNCHANGED <<probe, snap, conf, logger, fault, prRemote, req, cfg, skip, ctxDone, task, smCurrent, smRunning, heap,
                   dbStatus, stopAnswer, hist>>

\* ------------------------------------------------------------------ specification
\* Every step but the first of the RunWorkflow handler.
AfterCheck ==
    \/ \E r \in Runs : ReqStart(r)
    \/ \E r \in Runs : ReqLaunch(r)
    \/ StopWorkflow
    \/ \E r \in Runs : RunCreate(r)
    \/ \E r \in Runs : EngDispatch(r)
    \/ \E r \in Runs, j \in 1..MaxGroup : TaskStart(r, j)
    \/ \E r \in Runs, j \in 1..MaxGroup : TaskTrigger(r, j)
    \/ \E r \in Runs, j \in 1..MaxGroup : TaskQueuePoll(r, j)
    \/ \E r \in Runs, j \in 1..MaxGroup : TaskBuildPoll(r, j)
    \/ \E r \in Runs, j \in 1..MaxGroup : TaskReturn(r, j)
    \/ \E r \in Runs : EngStepDone(r)
    \/ \E r \in Runs : EngGroupWait(r)
    \/ \E r \in Runs : PRSkipStart(r)
    \/ \E r \in Runs : PRSkipComplete(r)
    \/ \E r \in Runs : PRBegin(r)
    \/ \E r \in Runs : PRResolve(r)
    \/ \E r \in Runs : PRMeta(r)
    \/ \E r \in Runs : PRCheck(r)
    \/ \E r \in Runs : PRPoll(r)
    \/ \E r \in Runs : PRFail(r)
    \/ \E r \in Runs : PRDone(r)
    \/ PRChange
    \/ \E r \in Runs : RunFinalize(r)
    \/ \E r \in Runs : RunComplete(r)
    \/ \E r \in Runs : RunExit(r)

Next ==
    \/ \E r \in Runs : ReqCheck(r)
    \/ AfterCheck

Spec ==
    Init /\ [][Next]_vars

\* ------------------------------------------------------------------ concurrent requests
\* The workflows of the first of two concurrent requests.
ServerWorkflows ==
    {<<StepItem>>, <<ParallelItem(1)>>, <<PRWaitItem(0, TheBranch, "merged")>>}

\* Two RunWorkflow requests are in flight against an idle server.
InitServer ==
    /\ snap = NoSnap
    /\ logger = NoLogger
    /\ probe = NoProbe
    /\ cfg \in {c \in [Runs -> Workflows] : c[1] \in ServerWorkflows /\ c[2] = <<StepItem>>}
    /\ fault \in {"res_FAILURE", "gh_404"}
    /\ conf = [r \in Runs |-> ConfOf(cfg[r])]
    /\ prRemote \in (IF HasKind(cfg[1], "prwait") THEN {"open", "merged"} ELSE {"open"})
    /\ skip \in {s \in [Runs -> BOOLEAN] : (s[1] => HasKind(cfg[1], "prwait")) /\ ~s[2]}
    /\ req = [r \in Runs |-> "pending"]
    /\ ctxDone = [r \in Runs |-> FALSE]
    /\ eng = [r \in Runs |-> IdleEngine]
    /\ task = [r \in Runs |-> [j \in 1..MaxGroup |-> OffTask]]
    /\ smCurrent = 0
    /\ smRunning = FALSE
    /\ heap = [r \in Runs |-> NilState]
    /\ cancelFn = 0
    /\ dbStatus = [r \in Runs |-> "none"]
    /\ stopAnswer = "none"
    /\ hist = [r \in Runs |-> NoHist]

SpecServer ==
    InitServer /\ [][Next]_vars

\* ------------------------------------------------------------------ status readers
\* GetState, under sm.mu.RLock: state := *sm.current; return &state.  The
\* scalar fields are copied; the Items slice header is copied, so the copy's
\* Items are the backing array and the Step, Parallel and PRWait objects of
\* the live state object.
GetState ==
    /\ smCurrent # 0
    /\ snap' = [taken |-> TRUE,
                fields |-> [Current EXCEPT !.Items = <<>>],
                itemsRef |-> smCurrent,
                seen |-> Current.Items]
    /\ UNCHANGED <<probe, conf, logger, fault, prRemote, req, cfg, skip, ctxDone, eng, task, smCurrent, smRunning,
                   heap, cancelFn, dbStatus, stopAnswer, hist>>

\* What the holder of the snapshot reads through it now.
SnapshotView ==
    [snap.fields EXCEPT !.Items = heap[snap.itemsRef].Items]

ReaderWorkflows ==
    {<<StepItem>>, <<ParallelItem(1)>>, <<PRWaitItem(0, TheBranch, "merged")>>}

\* One RunWorkflow request, with status readers.
InitReader ==
    /\ snap = NoSnap
    /\ logger = NoLogger
    /\ probe = NoProbe
    /\ cfg \in {c \in [Runs -> Workflows \cup {<<>>}] : c[1] \in ReaderWorkflows /\ c[2] = <<>>}
    /\ fault \in {"res_FAILURE", "gh_404"}
    /\ conf = [r \in Runs |-> ConfOf(cfg[r])]
    /\ prRemote \in (IF HasKind(cfg[1], "prwait") THEN {"open", "merged"} ELSE {"open"})
    /\ skip \in {s \in [Runs -> BOOLEAN] : (s[1] => HasKind(cfg[1], "prwait")) /\ ~s[2]}
    /\ req = [r \in Runs |-> IF r = 1 THEN "pending" ELSE "none"]
    /\ ctxDone = [r \in Runs |-> FALSE]
    /\ eng = [r \in Runs |-> IdleEngine]
    /\ task = [r \in Runs |-> [j \in 1..MaxGroup |-> OffTask]]
    /\ smCurrent = 0
    /\ smRunning = FALSE
    /\ heap = [r \in Runs |-> NilState]
    /\ cancelFn = 0
    /\ dbStatus = [r \in Runs |-> "none"]
    /\ stopAnswer = "none"
    /\ hist = [r \in Runs |-> NoHist]

NextReader ==
    \/ Next
    \/ GetState

SpecReader ==
    InitReader /\ [][NextReader]_vars

\* ------------------------------------------------------------------ config loading
\* The most steps a parallel group of a workflow file holds.
MaxSteps == 2

\* The pairs of files a request can name and the inputs it can send. A
\* workflow file holds one item, or a valid step followed by one item: a step
\* on a known or an unknown instance, with or without a placeholder in its
\* parameters; a group of up to MaxSteps steps; a gate with or without a
\* number and with no branch, a branch or a placeholder for one.
LoadConfigs ==
    LET FileSteps == {RawStep(inst, p) :
                         inst \in {"ci", "ghost"}, p \in {Lit("main"), Placeholder("branch")}}
        FileItems ==
            {RawItem("step", s, <<>>, 0, <<>>, <<>>) : s \in FileSteps}
            \cup {RawItem("parallel", RawStep("", <<>>), steps, 0, <<>>, <<>>) :
                      steps \in SeqsUpTo({s \in FileSteps : s.Params = Lit("main")}, MaxSteps)}
            \cup {RawItem("prwait", RawStep("", <<>>), <<>>, num, branch, Lit("merged")) :
                      num \in {0, ThePR}, branch \in {<<>>, Lit(TheBranch), Placeholder("branch")}}
        FileWorkflows ==
            {<<x>> : x \in FileItems}
            \cup {<<RawItem("step", RawStep("ci", Lit("main")), <<>>, 0, <<>>, <<>>), x>> :
                      x \in FileItems}
        FileInstances ==
            {[n \in {"ci"} |-> inst] :
                inst \in {GoodInstance, [GoodInstance EXCEPT !.URL = ""],
                          [GoodInstance EXCEPT !.Token = ""]}}
        FileInputs ==
            {NoInputs, [NoInputs EXCEPT !["branch"] = TheBranch], [NoInputs EXCEPT !["branch"] = ""],
             [NoInputs EXCEPT !["region"] = "eu"]}
        RequestInputs == {NoInputs, [NoInputs EXCEPT !["branch"] = "hot"]}
    IN {RawConfig(instances, github, inputs, reqInputs, workflow) :
           instances \in FileInstances, github \in BOOLEAN, inputs \in FileInputs,
           reqInputs \in RequestInputs, workflow \in FileWorkflows}

\* One RunWorkflow request naming any pair of files, with or without inputs.
InitLoad ==
    /\ snap = NoSnap
    /\ logger = NoLogger
    /\ probe = NoProbe
    /\ cfg = [r \in Runs |-> <<>>]
    /\ conf \in {c \in [Runs -> LoadConfigs \cup {ConfOf(<<>>)}] :
                    c[1] \in LoadConfigs /\ c[2] = ConfOf(<<>>)}
    /\ fault = "res_FAILURE"
    /\ prRemote \in {"open", "merged"}
    /\ skip \in {s \in [Runs -> BOOLEAN] :
                    /\ s[1] => \E i \in 1..Len(conf[1].Workflow) : conf[1].Workflow[i].kind = "prwait"
                    /\ ~s[2]}
    /\ req = [r \in Runs |-> IF r = 1 THEN "received" ELSE "none"]
    /\ ctxDone = [r \in Runs |-> FALSE]
    /\ eng = [r \in Runs |-> IdleEngine]
    /\ task = [r \in Runs |-> [j \in 1..MaxGroup |-> OffTask]]
    /\ smCurrent = 0
    /\ smRunning = FALSE
    /\ heap = [r \in Runs |-> NilState]
    /\ cancelFn = 0
    /\ dbStatus = [r \in Runs |-> "none"]
    /\ stopAnswer = "none"
    /\ hist = [r \in Runs |-> NoHist]

\* RunWorkflow up to StartWorkflow: the IsRunning check, config.Load (400 when
\* validate fails), the request's inputs, applyInputSubstitutions.
ReqLoad(r) ==
    /\ req[r] = "received"
    /\ IF smRunning
       THEN /\ req' = [req EXCEPT ![r] = "rejected"]
            /\ UNCHANGED <<conf, cfg>>
       ELSE IF validate(conf[r]) # ""
       THEN /\ req' = [req EXCEPT ![r] = "badrequest"]
            /\ UNCHANGED <<conf, cfg>>
       ELSE LET c == applyInputSubstitutions(MergeInputs(conf[r]))
            IN /\ req' = [req EXCEPT ![r] = "accepted"]
               /\ conf' = [conf EXCEPT ![r] = c]
               /\ cfg' = [cfg EXCEPT ![r] = Lower(c)]
    /\ UNCHANGED <<probe, snap, logger, fault, prRemote, skip, ctxDone, eng, task, smCurrent, smRunning, heap,
                   cancelFn, dbStatus, stopAnswer, hist>>

NextLoad ==
    \/ \E r \in Runs : ReqLoad(r)
    \/ AfterCheck

SpecLoad ==
    InitLoad /\ [][NextLoad]_vars

\* ------------------------------------------------------------------ logging
\* Logger.output, 1: Errorf, Infof, Debugf or Tracef is called; the call
\* returns at once when the logger's level is below the call's.
LogCall(g) ==
    /\ logger.calls[g].pc = "idle"
    /\ logger.calls[g].n < MaxLogCalls
    /\ \E level \in {Error, Info, Debug, Trace} :
          logger' = IF logger.level >= level
                    THEN [logger EXCEPT !.calls[g].pc = "prefix", !.calls[g].level = level]
                    ELSE [logger EXCEPT !.calls[g].n = @ + 1]
    /\ UNCHANGED <<probe, snap, conf, fault, prRemote, req, cfg, skip, ctxDone, eng, task, smCurrent,
                   smRunning, heap, cancelFn, dbStatus, stopAnswer, hist>>

\* Logger.output, 2: l.stdLog.SetPrefix(prefix).
LogSetPrefix(g) ==
    /\ logger.calls[g].pc = "prefix"
    /\ logger' = [logger EXCEPT !.prefix = Prefix(logger.calls[g].level),
                                !.calls[g].pc = "output"]
    /\ UNCHANGED <<probe, snap, conf, fault, prRemote, req, cfg, skip, ctxDone, eng, task, smCurrent,
                   smRunning, heap, cancelFn, dbStatus, stopAnswer, hist>>

\* Logger.output, 3: l.stdLog.Output writes the line behind the prefix stdLog
\* has at that moment.
LogOutput(g) ==
    /\ logger.calls[g].pc = "output"
    /\ logger' = [logger EXCEPT
           !.lines = Append(@, [prefix |-> logger.prefix,
                                level |-> logger.calls[g].level, by |-> g]),
           !.calls[g].pc = "idle",
           !.calls[g].n = @ + 1]
    /\ UNCHANGED <<probe, snap, conf, fault, prRemote, req, cfg, skip, ctxDone, eng, task, smCurrent,
                   smRunning, heap, cancelFn, dbStatus, stopAnswer, hist>>

\* Two goroutines log through one Logger of any level.
InitLog ==
    /\ snap = NoSnap
    /\ probe = NoProbe
    /\ logger \in {NewLogger(level) : level \in {Error, Info, Debug, Trace}}
    /\ cfg = [r \in Runs |-> <<>>]
    /\ fault = "res_FAILURE"
    /\ conf = [r \in Runs |-> ConfOf(cfg[r])]
    /\ prRemote = "open"
    /\ skip = [r \in Runs |-> FALSE]
    /\ req = [r \in Runs |-> "none"]
    /\ ctxDone = [r \in Runs |-> FALSE]
    /\ eng = [r \in Runs |-> IdleEngine]
    /\ task = [r \in Runs |-> [j \in 1..MaxGroup |-> OffTask]]
    /\ smCurrent = 0
    /\ smRunning = FALSE
    /\ heap = [r \in Runs |-> NilState]
    /\ cancelFn = 0
    /\ dbStatus = [r \in Runs |-> "none"]
    /\ stopAnswer = "none"
    /\ hist = [r \in Runs |-> NoHist]

NextLog ==
    \/ \E g \in Callers : LogCall(g)
    \/ \E g \in Callers : LogSetPrefix(g)
    \/ \E g \in Callers : LogOutput(g)

SpecLog ==
    InitLog /\ [][NextLog]_vars

\* ------------------------------------------------------------------ direct calls
\* The server is idle and no request is in flight: functions are called directly.
InitPure ==
    /\ snap = NoSnap
    /\ logger = NoLogger
    /\ probe = NoProbe
    /\ cfg = [r \in Runs |-> <<>>]
    /\ fault = "res_FAILURE"
    /\ conf = [r \in Runs |-> ConfOf(cfg[r])]
    /\ prRemote = "open"
    /\ skip = [r \in Runs |-> FALSE]
    /\ req = [r \in Runs |-> "none"]
    /\ ctxDone = [r \in Runs |-> FALSE]
    /\ eng = [r \in Runs |-> IdleEngine]
    /\ task = [r \in Runs |-> [j \in 1..MaxGroup |-> OffTask]]
    /\ smCurrent = 0
    /\ smRunning = FALSE
    /\ heap = [r \in Runs |-> NilState]
    /\ cancelFn = 0
    /\ dbStatus = [r \in Runs |-> "none"]
    /\ stopAnswer = "none"
    /\ hist = [r \in Runs |-> NoHist]

\* The pull requests a listing can hold, and the listings.
MaxPulls == 3

Pull(k, ref) ==
    [Number |-> ThePR + k, State |-> "open", Merged |-> FALSE, Title |-> "T", HTMLURL |-> "U",
     Ref |-> ref]

PullPool ==
    {Pull(0, "feat"), Pull(1, "Feat"), Pull(2, "FEAT"), Pull(3, "main")}

Listings ==
    {[neterr |-> ne, status |-> st, pulls |-> ps] :
        ne \in BOOLEAN, st \in {StatusOK, StatusServerError}, ps \in SeqsUpTo(PullPool, MaxPulls)}

\* FindPRByBranch is called on a listing.
ApplyFindPRByBranch ==
    /\ probe = NoProbe
    /\ \E done \in BOOLEAN, resp \in Listings, branch \in {"", "feat", "Main"} :
          probe' = [fn |-> "FindPRByBranch",
                    in |-> [done |-> done, resp |-> resp, branch |-> branch],
                    out |-> FindPRByBranch(done, resp, branch)]
    /\ UNCHANGED <<snap, conf, logger, fault, prRemote, req, cfg, skip, ctxDone, eng, task, smCurrent, smRunning,
                   heap, cancelFn, dbStatus, stopAnswer, hist>>

\* What GetPRStatus can hand to checkPRState: an error, or a PR status with
\* any state and merged flag.
GotStatuses ==
    {[pr |-> NilPRStatus, err |-> LeafErr(c)] : c \in {"request", "canceled", "PR not found"}}
    \cup {[pr |-> [Pull(0, "feat") EXCEPT !.State = st, !.Merged = m], err |-> NoErr] :
             st \in {"open", "closed"}, m \in BOOLEAN}

\* checkPRState is called on an outcome of GetPRStatus.
ApplyCheckPRState ==
    /\ probe = NoProbe
    /\ \E got \in GotStatuses, targetState \in {"merged", "closed", "open"} :
          probe' = [fn |-> "checkPRState",
                    in |-> [got |-> got, targetState |-> targetState],
                    out |-> checkPRState(got, targetState)]
    /\ UNCHANGED <<snap, conf, logger, fault, prRemote, req, cfg, skip, ctxDone, eng, task, smCurrent, smRunning,
                   heap, cancelFn, dbStatus, stopAnswer, hist>>

\* The values of StepStatus.
StepStatuses ==
    {StatusPending, StatusRunning, StatusSuccess, StatusFailed, StatusSkipped}

\* A step state the state manager can hold: any status, with or without a
\* build URL from before.
StepStatesHeld ==
    {[PendingStep EXCEPT !.Status = st, !.BuildURL = u] : st \in StepStatuses, u \in {"", "old"}}

\* A current workflow of one item: a single step, or a parallel group of two.
HeldWorkflows ==
    {StartWorkflow(1, <<[IsParallel |-> FALSE, IsPRWait |-> FALSE, Step |-> s,
                         Parallel |-> NilParallel, PRWait |-> NilPR]>>) : s \in StepStatesHeld}
    \cup {StartWorkflow(1, <<[IsParallel |-> TRUE, IsPRWait |-> FALSE, Step |-> NilStep,
                              Parallel |-> updateParallelGroupStatus(
                                               [Steps |-> <<s1, s2>>, Status |-> StatusPending]),
                              PRWait |-> NilPR]>>) :
              s1 \in StepStatesHeld, s2 \in {t \in StepStatesHeld : t.BuildURL = ""}}

\* UpdateStepStatus is called on a current workflow.
ApplyUpdateStepStatus ==
    /\ probe = NoProbe
    /\ \E ws \in HeldWorkflows, stepIndex \in 1..2, status \in StepStatuses, buildURL \in {"", "new"} :
          probe' = [fn |-> "UpdateStepStatus",
                    in |-> [ws |-> ws, stepIndex |-> stepIndex, status |-> status,
                            buildURL |-> buildURL],
                    out |-> UpdateStepStatus(ws, 1, stepIndex, status, "", NoErr, buildURL)]
    /\ UNCHANGED <<snap, conf, logger, fault, prRemote, req, cfg, skip, ctxDone, eng, task, smCurrent, smRunning,
                   heap, cancelFn, dbStatus, stopAnswer, hist>>

\* TriggerJob is called and the server answers with any status, with or
\* without a Location header (or the request fails).
ApplyTriggerJob ==
    /\ probe = NoProbe
    /\ \E done \in BOOLEAN, ne \in BOOLEAN,
          st \in {StatusOK, StatusCreated, StatusAccepted, 204, 302, StatusNotFound, StatusServerError},
          loc \in {"", "q", "queue/item/7/"} :
          LET resp == [neterr |-> ne, status |-> st, location |-> loc]
          IN probe' = [fn |-> "TriggerJob",
                       in |-> [done |-> done, resp |-> resp],
                       out |-> TriggerJob(done, resp)]
    /\ UNCHANGED <<snap, conf, logger, fault, prRemote, req, cfg, skip, ctxDone, eng, task, smCurrent, smRunning,
                   heap, cancelFn, dbStatus, stopAnswer, hist>>

\* The readings of the clock.
MaxTime == 3

\* FailPRWait is called at time now on a current workflow of one PR gate,
\* pending as StartWorkflow left it or started earlier by StartPRWait with
\* or without the pull request's number, URL and title.
ApplyFailPRWait ==
    /\ probe = NoProbe
    /\ \E started \in 0..MaxTime, num \in {0, ThePR}, url \in {"", "U"}, title \in {"", "T"},
          errMsg \in {LeafErr("PR was closed without being merged"), LeafErr("canceled")} :
          \E now \in (IF started = 0 THEN 1 ELSE started)..MaxTime :
             LET fresh == StartWorkflow(1, configToStateItems(<<PRWaitItem(num, TheBranch, "merged")>>))
                 begun == StartPRWait(fresh, 1, TheBranch, "merged", num, url, title)
                 ws == IF started = 0 THEN fresh
                       ELSE [begun EXCEPT !.Items[1].PRWait.StartedAt = started]
             IN probe' = [fn |-> "FailPRWait",
                          in |-> [ws |-> ws, errMsg |-> errMsg, now |-> now],
                          out |-> FailPRWaitAt(ws, 1, errMsg, now)]
    /\ UNCHANGED <<snap, conf, logger, fault, prRemote, req, cfg, skip, ctxDone, eng, task, smCurrent, smRunning,
                   heap, cancelFn, dbStatus, stopAnswer, hist>>

\* The polls of one wait.
MaxPolls == 3

\* WaitForQueue is called and the server answers its polls.
ApplyWaitForQueue ==
    /\ probe = NoProbe
    /\ \E resps \in SeqsUpTo(QueueResponses("queue_404") \cup QueueResponses("queue_cancelled")
                               \cup {[neterr |-> FALSE, status |-> StatusServerError,
                                      cancelled |-> FALSE, url |-> ""]},
                           MaxPolls) :
          probe' = [fn |-> "WaitForQueue", in |-> [resps |-> resps], out |-> WaitForQueue(resps, 0)]
    /\ UNCHANGED <<snap, conf, logger, fault, prRemote, req, cfg, skip, ctxDone, eng, task, smCurrent, smRunning,
                   heap, cancelFn, dbStatus, stopAnswer, hist>>

NextPure ==
    \/ ApplyFindPRByBranch
    \/ ApplyCheckPRState
    \/ ApplyUpdateStepStatus
    \/ ApplyTriggerJob
    \/ ApplyWaitForQueue
    \/ ApplyFailPRWait

SpecPure ==
    InitPure /\ [][NextPure]_vars

\* ------------------------------------------------------------------ properties
\* The status the state object ws shows for item i.
ItemStatus(ws, i) ==
    LET item == ws.Items[i]
    IN IF item.IsParallel THEN item.Parallel.Status
       ELSE IF item.IsPRWait THEN item.PRWait.Status
       ELSE item.Step.Status

\* A start event was emitted for item m of run r, or a job of it was triggered.
Started(r, m) ==
    m \in hist[r].starts \/ \E j \in 1..MaxGroup : <<m, j>> \in hist[r].trig

\* RunWithCallbacks of run r has returned.
Returned(r) ==
    eng[r].pc \in {"returned", "finalized", "completed", "exit"}

\* Item k of run r failed: its state is failed, or the engine returned its error.
ItemFailed(r, k) ==
    \/ heap[r] # NilState /\ ItemStatus(heap[r], k) = StatusFailed
    \/ Returned(r) /\ eng[r].err # NoErr /\ eng[r].err.item = k

\* C1: when item k of a workflow fails, no later item ever starts: no start
\* event is emitted for it and no job of it is triggered.
C1_NoStartAfterFailure ==
    \A r \in Runs : \A k \in 1..Len(cfg[r]) :
        ItemFailed(r, k) => \A m \in (k + 1)..Len(cfg[r]) : ~Started(r, m)

C1_Witness ==
    \E r \in Runs : \E k \in 1..Len(cfg[r]) :
        /\ k < Len(cfg[r])
        /\ ItemFailed(r, k)
        /\ eng[r].pc = "exit"
        /\ eng[r].err.item = k

\* C2: items run in declaration order: item i+1 has a start event or a trigger
\* only once item i shows success (a skipped PR gate shows success too), and no
\* two items are running at the same time.
C2_DeclarationOrder ==
    \A r \in Runs : heap[r] # NilState =>
        /\ \A i \in 1..(Len(cfg[r]) - 1) :
              Started(r, i + 1) => ItemStatus(heap[r], i) = StatusSuccess
        /\ \A i, m \in 1..Len(cfg[r]) :
              (i # m /\ ItemStatus(heap[r], i) = StatusRunning)
                  => ItemStatus(heap[r], m) # StatusRunning

C2_Witness ==
    \E r \in Runs :
        /\ Len(cfg[r]) = 2
        /\ cfg[r][1].kind = "parallel"
        /\ Started(r, 2)
        /\ ItemStatus(heap[r], 2) = StatusRunning

\* C3: fail-fast: once a member of a parallel group has returned a failure the
\* group's context is cancelled, and from then on no sibling gets a trigger
\* accepted or a poll answered: each returns with a cancellation error.
C3_FailFast ==
    \A r \in Runs :
        /\ ~hist[r].lateSibling
        /\ (eng[r].pc = "group" /\ \E j \in 1..MaxGroup :
                task[r][j].pc = "returned" /\ TaskFailed(task[r][j]))
              => eng[r].gctxDone
        /\ (eng[r].pc = "group" /\ eng[r].gctxDone /\ ~ctxDone[r])
              => \E j \in 1..MaxGroup : task[r][j].pc = "returned" /\ TaskFailed(task[r][j])

C3_Witness ==
    \E r \in Runs : \E j, k \in 1..MaxGroup :
        /\ eng[r].pc = "group"
        /\ ~ctxDone[r]
        /\ task[r][j].pc = "returned" /\ TaskFailed(task[r][j]) /\ ~IsCanceled(task[r][j].err)
        /\ task[r][k].pc = "returned" /\ IsCanceled(task[r][k].err)
        /\ task[r][k].err.op = "failed waiting for build"

AllMembersSucceeded(r) ==
    \A j \in 1..cfg[r][eng[r].i].n :
        task[r][j].pc = "returned" /\ task[r][j].err = NoErr /\ task[r][j].result = "SUCCESS"

\* C5: a parallel group reports no error exactly when every member finished
\* with result SUCCESS, and a run that returns nil leaves every member of every
\* group with status success.
C5_GroupSucceedsIffAll ==
    \A r \in Runs :
        /\ (eng[r].pc = "group" /\ WaitReturns(task[r]))
              => (eng[r].gerr = NoErr <=> AllMembersSucceeded(r))
        /\ (Returned(r) /\ eng[r].err = NoErr)
              => \A i \in 1..Len(cfg[r]) : IsParallel(cfg[r][i]) =>
                    /\ heap[r].Items[i].Parallel.Status = StatusSuccess
                    /\ \A j \in 1..cfg[r][i].n :
                          heap[r].Items[i].Parallel.Steps[j].Status = StatusSuccess

C5_Witness ==
    \E r \in Runs :
        /\ cfg[r] = <<ParallelItem(3)>>
        /\ eng[r].pc = "exit"
        /\ eng[r].err = NoErr
        /\ \A j \in 1..3 : heap[r].Items[1].Parallel.Steps[j].Status = StatusSuccess

\* The step states of item state it.
StepStates(it) ==
    IF it.IsParallel THEN {it.Parallel.Steps[j] : j \in 1..Len(it.Parallel.Steps)}
    ELSE IF it.IsPRWait THEN {}
    ELSE {it.Step}

\* The remote build of step state st ended with a result other than SUCCESS.
NonSuccess(st) ==
    st.EndedAt = 1 /\ st.Error = NoErr /\ st.Result # "SUCCESS"

\* C6: a result other than the literal SUCCESS is a failure of the step: its
\* state is failed, the engine does not advance past its item and starts no
\* later item, and what the engine returns is an error naming that item.
C6_NonSuccessFails ==
    \A r \in Runs : heap[r] # NilState =>
        \A i \in 1..Len(cfg[r]) : \A st \in StepStates(heap[r].Items[i]) :
            NonSuccess(st) =>
                /\ st.Status = StatusFailed
                /\ eng[r].i = i
                /\ \A m \in (i + 1)..Len(cfg[r]) : ~Started(r, m)
                /\ Returned(r) => (eng[r].err # NoErr /\ eng[r].err.item = i)

C6_Witness ==
    \E r \in Runs :
        /\ Len(cfg[r]) = 2
        /\ cfg[r][1].kind = "step"
        /\ heap[r] # NilState
        /\ heap[r].Items[1].Step.Result = ""
        /\ NonSuccess(heap[r].Items[1].Step)
        /\ eng[r].pc = "exit"

EndedByStop(r) ==
    ctxDone[r] /\ eng[r].err # NoErr /\ IsCanceled(eng[r].err)

\* C8: a run that ended because of the caller's stop is reported stopped, and
\* failed is reported only for runs that did not end because of it.
C8_StoppedNotFailed ==
    \A r \in Runs : (eng[r].pc \in {"completed", "exit"} /\ smCurrent = r) =>
        /\ EndedByStop(r) => heap[r].Status = "stopped"
        /\ heap[r].Status = StatusFailed => ~EndedByStop(r)

\* A run is executing from the launch of its goroutine to CompleteWorkflow.
Executing(r) ==
    eng[r].pc \notin {"none", "completed", "exit"}

\* C9: at most one run executes at a time: of two concurrent requests at most
\* one gets its run launched while the other's run executes, and StartWorkflow
\* never replaces the state of a run in progress.
C9_SingleRun ==
    /\ Cardinality({r \in Runs : Executing(r)}) <= 1
    /\ \A r \in Runs : ~hist[r].startedWhileRunning

\* C10: the snapshot GetState returned shares no storage with the live state:
\* what its holder reads through it stays what it was when it was taken.
C10_SnapshotIsolated ==
    snap.taken => SnapshotView = [snap.fields EXCEPT !.Items = snap.seen]

\* The kinds recorded for item i of run r, in order.
ItemLog(r, i) ==
    LET Mine(e) == e.item = i
        mine == SelectSeq(hist[r].log, Mine)
    IN [k \in 1..Len(mine) |-> mine[k].kind]

\* The engine of run r has gone past item i.
Passed(r, i) ==
    eng[r].i > i \/ (Returned(r) /\ eng[r].err = NoErr)

\* C11: with the skip flag set a PR gate gets one start event then one complete
\* event, the GitHub client is never called, and the gate counts as satisfied:
\* it shows success and the engine goes on to the next item.
C11_SkippedGate ==
    \A r \in Runs : skip[r] => \A i \in 1..Len(cfg[r]) : IsPRWait(cfg[r][i]) =>
        /\ ItemLog(r, i) \in {<<>>, <<"start">>, <<"start", "complete">>}
        /\ ItemLog(r, i) = <<"start", "complete">> <=> Passed(r, i)
        /\ Passed(r, i) => ItemStatus(heap[r], i) = StatusSuccess
        /\ (eng[r].i = i /\ ~Returned(r)) => eng[r].pc \in {"walk", "pr_skip", "pr_skipped"}

C11_Witness ==
    \E r \in Runs :
        /\ skip[r]
        /\ Len(cfg[r]) = 2
        /\ IsPRWait(cfg[r][1])
        /\ ItemLog(r, 1) = <<"start", "complete">>
        /\ prRemote = "open"
        /\ Started(r, 2)

\* The phase of runPRWait a recorded client call belongs to (0: an event).
Phase(kind) ==
    CASE kind \in {"find_ok", "find_err"} -> 1
      [] kind \in {"get_ok", "get_err"} -> 2
      [] kind \in {"tick", "check_done", "check_wait", "check_err", "check_closed_unmerged"} -> 3
      [] OTHER -> 0

\* C12: a gate that is not skipped goes through its phases in order: the
\* branch is resolved when only a head branch is configured, metadata is
\* fetched only with a PR number known and only when title and URL are not
\* yet known, then the wait for the target state; every phase that obtains a
\* PR status reports it with a progress event of its own.
C12_GatePhases ==
    \A r \in Runs : ~skip[r] => \A i \in 1..Len(cfg[r]) : IsPRWait(cfg[r][i]) =>
        LET L == ItemLog(r, i)
            byBranch == cfg[r][i].pr.HeadBranch # ""
        IN /\ Len(L) > 0 => L[1] = "start"
           /\ \A p, q \in 1..Len(L) :
                 (p < q /\ Phase(L[p]) > 0 /\ Phase(L[q]) > 0) => Phase(L[p]) <= Phase(L[q])
           /\ \A q \in 1..Len(L) :
                 /\ Phase(L[q]) = 1 => byBranch
                 /\ (Phase(L[q]) > 1 /\ byBranch) => \E p \in 1..(q - 1) : L[p] = "find_ok"
                 /\ Phase(L[q]) = 2 => ~byBranch
                 /\ (Phase(L[q]) = 3 /\ ~byBranch) => \E p \in 1..(q - 1) : L[p] = "get_ok"
                 /\ L[q] \in {"find_ok", "get_ok", "check_done"}
                       => (q < Len(L) /\ L[q + 1] = "progress")
                 /\ L[q] = "progress"
                       => (q > 1 /\ L[q - 1] \in {"find_ok", "get_ok", "check_done"})
           /\ (eng[r].i = i /\ eng[r].pc \in {"pr_meta", "pr_check", "pr_poll", "pr_ok"})
                 => eng[r].prNumber # 0

C12_Witness ==
    \E r \in Runs :
        /\ ~skip[r]
        /\ Len(cfg[r]) >= 1
        /\ IsPRWait(cfg[r][1])
        /\ ItemLog(r, 1) = <<"start", "find_ok", "progress", "check_wait", "tick", "check_done",
                             "progress", "complete">>

\* The positions of listing pulls whose head ref is branch, letter case aside.
OnBranch(pulls, branch) ==
    {k \in 1..Len(pulls) : ToLower(pulls[k].Ref) = ToLower(branch)}

\* C13: FindPRByBranch on a listing it received returns an error and no PR when
\* no pull request or more than one is on the branch, and the one pull request
\* on the branch, compared without regard to letter case, when there is one.
C13_FindByBranch ==
    (/\ probe.fn = "FindPRByBranch"
     /\ probe.in.branch # ""
     /\ ~probe.in.done /\ ~probe.in.resp.neterr /\ probe.in.resp.status = StatusOK)
    => LET on == OnBranch(probe.in.resp.pulls, probe.in.branch)
       IN /\ Cardinality(on) # 1 => (probe.out.err # NoErr /\ probe.out.pr = NilPRStatus)
          /\ Cardinality(on) = 1 =>
                /\ probe.out.err = NoErr
                /\ \A k \in on : probe.out.pr = probe.in.resp.pulls[k]

C13_Witness ==
    /\ probe.fn = "FindPRByBranch"
    /\ probe.in.branch = "Main"
    /\ ~probe.in.done /\ ~probe.in.resp.neterr /\ probe.in.resp.status = StatusOK
    /\ Len(probe.in.resp.pulls) = 3
    /\ OnBranch(probe.in.resp.pulls, "Main") = {2}
    /\ probe.out.err = NoErr
    /\ probe.out.pr.Ref = "main"

\* Run r, waiting at a gate for the target merged, makes a check in this step.
ChecksForMerged(r) ==
    /\ eng[r].pc \in {"pr_check", "pr_poll"}
    /\ ThePRCfg(r).WaitFor = "merged"
    /\ (eng'[r] # eng[r] \/ hist'[r].log # hist[r].log)

\* C14: in a wait for merged, a check that finds the PR closed and not merged
\* ends the wait with an error: the check made while the PR is in that state
\* never leaves the gate waiting, and once it is recorded no further call is
\* made for that gate, which fails with that error.
C14_ClosedUnmergedIsTerminal ==
    /\ [][\A r \in Runs : (ChecksForMerged(r) /\ prRemote = "closed") => eng'[r].pc = "pr_err"]_vars
    /\ [](\A r \in Runs : \A i \in 1..Len(cfg[r]) : IsPRWait(cfg[r][i]) =>
            LET L == ItemLog(r, i)
            IN \A q \in 1..Len(L) : L[q] = "check_closed_unmerged" =>
                  /\ cfg[r][i].pr.WaitFor = "merged"
                  /\ \A p \in (q + 1)..Len(L) : L[p] = "failed"
                  /\ eng[r].i = i
                  /\ eng[r].pc \in {"pr_err", "returned", "finalized", "completed", "exit"}
                  /\ eng[r].err.cause = "PR was closed without being merged")

C14_Witness ==
    \E r \in Runs :
        /\ Len(cfg[r]) >= 1
        /\ IsPRWait(cfg[r][1])
        /\ ItemLog(r, 1) = <<"start", "find_ok", "progress", "check_wait", "tick",
                             "check_closed_unmerged", "failed">>
        /\ heap[r].Items[1].PRWait.Status = StatusFailed

\* C15: for the target closed a check succeeds exactly when the PR status it
\* got has state closed, with the merged flag true or false, and returns no
\* error; it does not succeed on an open PR.
C15_ClosedTarget ==
    (/\ probe.fn = "checkPRState"
     /\ probe.in.targetState = "closed"
     /\ probe.in.got.err = NoErr)
    => /\ probe.out.err = NoErr
       /\ probe.out.done <=> probe.in.got.pr.State = "closed"
       /\ probe.out.pr = probe.in.got.pr

C15_Witness ==
    /\ probe.fn = "checkPRState"
    /\ probe.in.targetState = "closed"
    /\ probe.in.got.err = NoErr
    /\ probe.in.got.pr.State = "closed"
    /\ ~probe.in.got.pr.Merged
    /\ probe.out.done

\* The pull request is in the state the gate run r is at waits for.
InTargetState(r) ==
    \/ ThePRCfg(r).WaitFor = "merged" /\ prRemote = "merged"
    \/ ThePRCfg(r).WaitFor = "closed" /\ prRemote \in {"merged", "closed"}

\* C16: the wait makes its first check before any tick of its ticker: a tick is
\* only ever recorded after a check that left the gate waiting, and when the PR
\* is in the target state as the wait begins (the request answered, the
\* context live) the wait returns from that first check, no tick recorded.
C16_ImmediateFirstCheck ==
    /\ [](\A r \in Runs : \A i \in 1..Len(cfg[r]) : IsPRWait(cfg[r][i]) =>
            LET L == ItemLog(r, i)
            IN \A q \in 1..Len(L) : L[q] = "tick" => \E p \in 1..(q - 1) : L[p] = "check_wait")
    /\ [][\A r \in Runs :
            (/\ eng[r].pc = "pr_check"
             /\ eng'[r] # eng[r]
             /\ InTargetState(r)
             /\ ~ctxDone[r]
             /\ fault # "gh_404")
            => /\ eng'[r].pc = "pr_ok"
               /\ \A q \in 1..Len(hist'[r].log) : hist'[r].log[q].kind # "tick"]_vars

C16_Witness ==
    \E r \in Runs :
        /\ Len(cfg[r]) >= 1
        /\ IsPRWait(cfg[r][1])
        /\ ItemLog(r, 1) = <<"start", "get_ok", "progress", "check_done", "progress", "complete">>

\* The steps of workflow w: item and member positions.
StepsOf(w) ==
    {<<i, j>> \in (1..Len(w)) \X (1..MaxGroup) :
        \/ w[i].kind = "step" /\ j = 1
        \/ w[i].kind = "parallel" /\ j <= w[i].n}

\* The state of step <<i, j>> in ws.
StepStateAt(ws, i, j) ==
    IF ws.Items[i].IsParallel THEN ws.Items[i].Parallel.Steps[j] ELSE ws.Items[i].Step

\* C17: no retry: no job is triggered a second time within a run, every step of
\* a run that returned nil was triggered, a step whose trigger, queue wait or
\* build wait returned an error shows failed, and a step that has ended is not
\* run again.
C17_NoRetry ==
    /\ [](\A r \in Runs :
            /\ ~hist[r].retrig
            /\ hist[r].trig \subseteq StepsOf(cfg[r])
            /\ (Returned(r) /\ eng[r].err = NoErr) => hist[r].trig = StepsOf(cfg[r])
            /\ \A j \in 1..MaxGroup :
                  (task[r][j].pc \in {"completed", "returned"} /\ task[r][j].err # NoErr)
                      => StepStateAt(heap[r], eng[r].i, j).Status = StatusFailed)
    /\ [][\A r \in Runs : \A j \in 1..MaxGroup :
            task[r][j].pc \in {"completed", "returned"}
                => task'[r][j].pc \in {"completed", "returned", "off"}]_vars

C17_Witness ==
    \E r \in Runs :
        /\ Len(cfg[r]) = 2
        /\ cfg[r][1].kind = "parallel"
        /\ cfg[r][2].kind = "step"
        /\ eng[r].pc = "step"
        /\ task[r][1].pc = "completed"
        /\ task[r][1].err.op = "failed waiting for queue"
        /\ ~IsCanceled(task[r][1].err)
        /\ hist[r].trig = StepsOf(cfg[r])

\* Run r is the scenario of TestRunParallelGroup_FailFast: one parallel group of two
\* steps against a backend whose builds all end in FAILURE.
ParallelFailure(r) ==
    /\ cfg[r] = <<ParallelItem(2)>>
    /\ fault = "res_FAILURE"
    /\ hist[r].built \subseteq {"FAILURE"}

\* C18: in a parallel group of two steps whose builds always end in FAILURE
\* the run returns a non-nil error that names one of the two steps, no member
\* ever shows success, and once the run has returned both members show failed
\* or skipped.
C18_ParallelFailure ==
    \A r \in Runs : ParallelFailure(r) =>
        /\ Returned(r) =>
              /\ eng[r].err # NoErr
              /\ eng[r].err.step \in {<<1, 1>>, <<1, 2>>}
        /\ heap[r] # NilState =>
              \A j \in 1..2 :
                  /\ StepStateAt(heap[r], 1, j).Status # StatusSuccess
                  /\ Returned(r) =>
                        StepStateAt(heap[r], 1, j).Status \in {StatusFailed, StatusSkipped}

C18_Witness ==
    \E r \in Runs :
        /\ ParallelFailure(r)
        /\ eng[r].pc = "exit"
        /\ ~ctxDone[r]
        /\ eng[r].err.result = "FAILURE"
        /\ eng[r].err.step = <<1, 2>>
        /\ hist[r].trig = {<<1, 1>>, <<1, 2>>}

\* runWorkflow of run r has called CompleteWorkflow on its own state object.
Completed(r) ==
    eng[r].pc \in {"completed", "exit"} /\ smCurrent = r

DoubleQuote ==
    "\""

Backslash ==
    "\\"

Digits ==
    <<"1", "2", "3", "4", "5", "6", "7", "8", "9">>

\* The names the scenario's configuration gives its items, by position: a
\* plain one, one with a double quote in it and one with a backslash.
ScenarioNames ==
    <<<<"u", "p">>, <<"g", "o", DoubleQuote, "x", DoubleQuote>>, <<"a", Backslash, "b">>>>

\* Step.Name of a single step at position i, PRWait.Name of a gate there.
ItemName(i) ==
    ScenarioNames[((i - 1) % Len(ScenarioNames)) + 1]

\* ParallelGroup.Name, which validate() does not require: the scenario's
\* first item, when a group, has none.
ParallelName(i) ==
    IF i = 1 THEN <<>> ELSE ItemName(i)

\* Step.Name of step j of item i.
StepName(w, i, j) ==
    IF IsParallel(w[i]) THEN ItemName(i) \o <<Digits[j]>> ELSE ItemName(i)

\* groupName in RunWithCallbacks: fmt.Sprintf("Parallel Group %d", i+1) for a
\* group without a name, i counting from 0 there and from 1 here.
groupName(w, i) ==
    IF ParallelName(i) = <<>> THEN <<"Parallel Group ", Digits[i]>> ELSE ParallelName(i)

\* strconv.Quote's escapes for the characters of the names.
RECURSIVE Escaped(_)
Escaped(s) ==
    IF s = <<>> THEN <<>>
    ELSE (IF Head(s) \in {DoubleQuote, Backslash} THEN <<Backslash, Head(s)>> ELSE <<Head(s)>>)
         \o Escaped(Tail(s))

\* The verb %q: the escaped string between double quotes.
Quote(s) ==
    <<DoubleQuote>> \o Escaped(s) \o <<DoubleQuote>>

\* Error() of what runStep or runPRWait returned.
InnerText(e) ==
    IF e.op = "" THEN <<e.cause>> ELSE <<e.op, ": ", e.cause>>

\* Error() of what the goroutine of a group member returned.
MemberText(w, e) ==
    <<"step ">> \o Quote(StepName(w, e.step[1], e.step[2]))
        \o (IF e.cause = "failed with result"
            THEN <<" failed with result: ", e.result>>
            ELSE <<": ">> \o InnerText(e))

\* Mutant: the wrappers of RunWithCallbacks leave the names out.
ErrorText_Anonymous(w, e) ==
    IF e.wrap = "step"
    THEN <<"step ">> \o (IF e.cause = "failed with result"
                         THEN <<" failed with result: ", e.result>>
                         ELSE <<" failed: ">> \o InnerText(e))
    ELSE IF e.wrap = "parallel group"
    THEN <<"parallel group ">> \o <<" failed: ">> \o InnerText(e)
    ELSE <<"PR wait ">> \o <<" failed: ">> \o InnerText(e)

\* Error() of what RunWithCallbacks returned for workflow w.
ErrorText(w, e) ==
    IF e.wrap = "step"
    THEN <<"step ">> \o Quote(StepName(w, e.item, 1))
             \o (IF e.cause = "failed with result"
                 THEN <<" failed with result: ", e.result>>
                 ELSE <<" failed: ">> \o InnerText(e))
    ELSE IF e.wrap = "parallel group"
    THEN <<"parallel group ">> \o Quote(groupName(w, e.item)) \o <<" failed: ">> \o MemberText(w, e)
    ELSE <<"PR wait ">> \o Quote(ItemName(e.item)) \o <<" failed: ">> \o InnerText(e)

\* strings.Contains on texts.
Contains(text, s) ==
    \E k \in 0..(Len(text) - Len(s)) : SubSeq(text, k + 1, k + Len(s)) = s

\* The name the configuration gives item i of w.
ConfiguredName(w, i) ==
    IF IsParallel(w[i]) THEN ParallelName(i) ELSE ItemName(i)

\* The statement as given: the error the engine returned for the failed item
\* contains the item's configured name.
C20_Original ==
    \A r \in Runs : (Returned(r) /\ eng[r].err # NoErr) =>
        Contains(ErrorText(cfg[r], eng[r].err), ConfiguredName(cfg[r], eng[r].err.item))

\* C20: the error the engine returned for a failed item is the wrapper of that
\* item's kind and contains the item's name as %q writes it, between double
\* quotes with double quotes and backslashes escaped; for a parallel group it
\* contains the group's name, or "Parallel Group" and the position when the
\* group has none, and the name of the member step whose error it wraps.
C20_QuotedName ==
    \A r \in Runs : (Returned(r) /\ eng[r].err # NoErr) =>
        LET w == cfg[r]
            e == eng[r].err
            i == e.item
            text == ErrorText(w, e)
        IN /\ i \in 1..Len(w)
           /\ ItemFailed(r, i)
           /\ w[i].kind = "step" =>
                 e.wrap = "step" /\ Contains(text, Quote(ItemName(i)))
           /\ w[i].kind = "prwait" =>
                 e.wrap = "PR wait" /\ Contains(text, Quote(ItemName(i)))
           /\ w[i].kind = "parallel" =>
                 /\ e.wrap = "parallel group"
                 /\ Contains(text, Quote(IF ParallelName(i) = <<>>
                                         THEN <<"Parallel Group ", Digits[i]>>
                                         ELSE ParallelName(i)))
                 /\ e.step[1] = i
                 /\ e.step[2] \in 1..w[i].n
                 /\ Contains(text, Quote(ItemName(i) \o <<Digits[e.step[2]]>>))

C20_Witness ==
    \E r \in Runs :
        /\ Returned(r)
        /\ eng[r].err # NoErr
        /\ eng[r].err.item = 2
        /\ cfg[r][2].kind = "step"
        /\ ~Contains(ErrorText(cfg[r], eng[r].err), ItemName(2))
        /\ Contains(ErrorText(cfg[r], eng[r].err), Quote(ItemName(2)))

\* The status the aggregation rule gives a group with member states steps.
AggregateRule(steps) ==
    IF \E j \in 1..Len(steps) : steps[j].Status = StatusFailed THEN StatusFailed
    ELSE IF \E j \in 1..Len(steps) : steps[j].Status = StatusRunning THEN StatusRunning
    ELSE IF \A j \in 1..Len(steps) : steps[j].Status = StatusSuccess THEN StatusSuccess
    ELSE StatusPending

ProbedStep(ws) ==
    StepStateAt(ws, 1, probe.in.stepIndex)

\* C22: a step that an update reports running shows the build URL of that
\* update: without one it shows none, whatever URL it held before.
C22_RunningResetsURL ==
    (probe.fn = "UpdateStepStatus" /\ probe.in.status = StatusRunning) =>
        /\ ProbedStep(probe.out).Status = StatusRunning
        /\ ProbedStep(probe.out).BuildURL = probe.in.buildURL

C22_Witness ==
    /\ probe.fn = "UpdateStepStatus"
    /\ probe.in.status = StatusRunning
    /\ probe.in.buildURL = ""
    /\ ProbedStep(probe.in.ws).BuildURL = "old"
    /\ ProbedStep(probe.in.ws).Status = StatusSuccess
    /\ ProbedStep(probe.out).BuildURL = ""

\* The build of step j of run r's current item was located: runStep called
\* OnStepStart with its URL, and the step has ended since.
EndedAfterBuildStart(r, j) ==
    /\ task[r][j].pc = "completed"
    /\ \/ task[r][j].result # ""
       \/ task[r][j].err.op = "failed waiting for build"

\* C23: the build URL recorded for a step while it ran is still shown after
\* the step's terminal update.
C23_URLPersists ==
    \A r \in Runs : \A j \in 1..MaxGroup :
        (smCurrent = r /\ EndedAfterBuildStart(r, j)) =>
            StepStateAt(heap[r], eng[r].i, j).BuildURL # ""

\* The errors that report an invalid configuration.
ConfigErrors ==
    {"github configuration is required", "no PR number resolved for wait step", "unknown instance"}

\* C24: an invalid configuration is detected before execution begins: no item
\* of a run fails with an error that reports an invalid configuration.
C24_ConfigErrorsBeforeRun ==
    \A r \in Runs :
        /\ eng[r].err.cause \notin ConfigErrors
        /\ \A j \in 1..MaxGroup : task[r][j].err.cause \notin ConfigErrors

\* Nothing of request r's workflow has been executed.
NothingExecuted(r) ==
    /\ eng[r] = IdleEngine
    /\ heap[r] = NilState
    /\ hist[r] = NoHist
    /\ \A j \in 1..MaxGroup : task[r][j] = OffTask

\* The handler of request r has not loaded a config: it has not got to it, or
\* it answered 400.
NotLoaded(r) ==
    req[r] \in {"received", "badrequest"}

\* The workflow file of request r holds a gate with both a PR number and a
\* head branch, or with neither.
BadGate(r) ==
    \E i \in 1..Len(conf[r].Workflow) :
        LET item == conf[r].Workflow[i]
        IN /\ item.kind = "prwait"
           /\ (item.PRNumber > 0) = (item.HeadBranch # <<>>)

\* C25: a workflow file with a gate that sets both a PR number and a head
\* branch, or neither, fails validation: the handler answers 400 and no item
\* of the workflow is executed.
C25_GateIdentifiers ==
    /\ [](\A r \in Runs : (NotLoaded(r) /\ BadGate(r)) => NothingExecuted(r))
    /\ [][\A r \in Runs : (req[r] = "received" /\ BadGate(r) /\ req'[r] # req[r])
                              => req'[r] = "badrequest"]_vars

C25_Witness ==
    \E r \in Runs :
        /\ req[r] = "badrequest"
        /\ Len(conf[r].Workflow) = 2
        /\ validate(conf[r]) = "pr_number and head_branch are mutually exclusive"
        /\ NothingExecuted(r)

\* The workflow file of request r holds a parallel group without steps.
EmptyGroup(r) ==
    \E i \in 1..Len(conf[r].Workflow) :
        conf[r].Workflow[i].kind = "parallel" /\ Len(conf[r].Workflow[i].Steps) = 0

\* C26: a workflow file with a parallel group of zero steps fails validation,
\* and every parallel group the engine executes has at least one step.
C26_NoEmptyGroup ==
    /\ [](\A r \in Runs :
            /\ (NotLoaded(r) /\ EmptyGroup(r)) => NothingExecuted(r)
            /\ eng[r].pc = "group" =>
                  /\ cfg[r][eng[r].i].n >= 1
                  /\ Len(conf[r].Workflow[eng[r].i].Steps) >= 1)
    /\ [][\A r \in Runs : (req[r] = "received" /\ EmptyGroup(r) /\ req'[r] # req[r])
                              => req'[r] = "badrequest"]_vars

C26_Witness ==
    \E r \in Runs :
        /\ req[r] = "badrequest"
        /\ Len(conf[r].Workflow) = 2
        /\ validate(conf[r]) = "parallel group is empty"
        /\ NothingExecuted(r)

\* Step s of config c names an instance of the registry that has a URL and a
\* credential.
ValidInstance(c, s) ==
    /\ s.Instance \in DOMAIN c.Instances
    /\ c.Instances[s.Instance].URL # ""
    /\ c.Instances[s.Instance].AuthEnv # "" \/ c.Instances[s.Instance].Token # ""

\* The steps of the workflow file of request r, single or in a group.
FileStepsOf(r) ==
    {conf[r].Workflow[i] : i \in {k \in 1..Len(conf[r].Workflow) : conf[r].Workflow[k].kind = "step"}}
    \cup UNION {{conf[r].Workflow[i].Steps[j] : j \in 1..Len(conf[r].Workflow[i].Steps)} :
                   i \in {k \in 1..Len(conf[r].Workflow) : conf[r].Workflow[k].kind = "parallel"}}

\* C27: a workflow with a step, single or in a group, whose instance is not in
\* the registry or has no URL or no credential fails validation, and every
\* step the engine runs names a registered instance with a URL and a
\* credential: runStep never reports an unknown instance.
C27_KnownInstances ==
    /\ [](\A r \in Runs :
            /\ (NotLoaded(r) /\ \E s \in FileStepsOf(r) : ~ValidInstance(conf[r], s))
                  => NothingExecuted(r)
            /\ \A j \in 1..MaxGroup :
                  /\ task[r][j].pc # "off" => ValidInstance(conf[r], StepAt(conf[r], eng[r].i, j))
                  /\ task[r][j].err.cause # "unknown instance")
    /\ [][\A r \in Runs :
            (/\ req[r] = "received"
             /\ \E s \in FileStepsOf(r) : ~ValidInstance(conf[r], s)
             /\ req'[r] # req[r])
            => req'[r] = "badrequest"]_vars

C27_Witness ==
    \E r \in Runs :
        /\ req[r] = "badrequest"
        /\ validate(conf[r]) = "unknown instance"
        /\ conf[r].Workflow[1].kind = "parallel"
        /\ Len(conf[r].Workflow[1].Steps) = 2
        /\ conf[r].Workflow[1].Steps[1].Instance = "ci"
        /\ NothingExecuted(r)

\* C28: every job is triggered with the placeholders of its parameters
\* replaced by the values of the inputs, the file's overridden by the
\* request's.
C28_InputsInParams ==
    \A r \in Runs : \A t \in hist[r].sent :
        t[3] = Substitute(StepAt(conf[r], t[1], t[2]).Params, conf[r].Inputs)

\* C29: a failing database write does not change execution: the engine is
\* started whether or not the run record was created, the in-memory status
\* of the completed run is the one the engine's result gives, and a run of
\* jobs that was not stopped triggers every step and ends in success although
\* the record was not written.
C29_DatabaseFailuresIgnored ==
    /\ [](\A r \in Runs : (fault \in DBFaults /\ Completed(r)) =>
            /\ heap[r].Status = (IF eng[r].err = NoErr THEN StatusSuccess ELSE StatusFailed)
            /\ (~ctxDone[r] /\ ~HasKind(cfg[r], "prwait")) =>
                  /\ heap[r].Status = StatusSuccess
                  /\ hist[r].trig = StepsOf(cfg[r])
                  /\ \A i \in 1..Len(cfg[r]) : ItemStatus(heap[r], i) = StatusSuccess)
    /\ [][\A r \in Runs : (eng[r].pc = "create" /\ eng'[r] # eng[r])
                              => (eng'[r].pc = "walk" /\ eng'[r].i = 1 /\ eng'[r].err = NoErr)]_vars

C29_Witness ==
    \E r \in Runs :
        /\ fault = "db_create"
        /\ Completed(r)
        /\ eng[r].runID = 0
        /\ dbStatus[r] = "none"
        /\ cfg[r] = <<ParallelItem(2)>>
        /\ heap[r].Status = StatusSuccess
        /\ hist[r].trig = {<<1, 1>>, <<1, 2>>}

\* A step of the StopWorkflow handler that answered or cancelled something.
StopHandled ==
    \/ stopAnswer' # stopAnswer
    \/ cancelFn # 0 /\ cancelFn' = 0 /\ eng' = eng

\* C30: a stop request handled while the state reports a running workflow is
\* answered "stopped" and leaves that run's context cancelled, and the reset
\* of the cancel handle at the end of a run never clears the handle of
\* another run.
C30_StopReachesRunning ==
    /\ [][(StopHandled /\ smRunning) =>
              (stopAnswer' = "stopped" /\ ctxDone'[smCurrent])]_vars
    /\ [][\A r \in Runs : (eng[r].pc = "completed" /\ eng'[r].pc = "exit")
                              => cancelFn \in {0, r}]_vars

\* The statuses an item ends in.
TerminalStatuses ==
    {StatusSuccess, StatusFailed, StatusSkipped}

\* One move of a status along pending -> running -> terminal (or none).
StatusMove(s, t) ==
    \/ s = t
    \/ s = StatusPending /\ t = StatusRunning
    \/ s = StatusRunning /\ t \in TerminalStatuses

\* The move of item i between two values of a state object. OnPRWaitComplete
\* and OnPRWaitFailed make two calls, the first of which (UpdatePRWaitMetadata)
\* takes a pending gate to running: their move from pending is two moves.
ItemMove(ws, wt, i) ==
    \/ StatusMove(ItemStatus(ws, i), ItemStatus(wt, i))
    \/ /\ ws.Items[i].IsPRWait
       /\ ItemStatus(ws, i) = StatusPending
       /\ ItemStatus(wt, i) \in {StatusSuccess, StatusFailed}

\* C31: within a run the status of every item, and of every member of a
\* group, moves only along pending -> running -> {success, failed, skipped}.
C31_StatusPath ==
    [][\A r \in Runs :
          (heap[r] # NilState /\ heap'[r] # NilState) =>
              \A i \in 1..Len(heap[r].Items) :
                  /\ ItemMove(heap[r], heap'[r], i)
                  /\ \A j \in 1..Len(heap[r].Items[i].Parallel.Steps) :
                        StatusMove(heap[r].Items[i].Parallel.Steps[j].Status,
                                   heap'[r].Items[i].Parallel.Steps[j].Status)]_vars

\* The statuses of the steps, groups, members and gates of a state object.
AllStatuses(ws) ==
    {ItemStatus(ws, i) : i \in 1..Len(ws.Items)}
        \cup UNION {{ws.Items[i].Parallel.Steps[j].Status :
                        j \in 1..Len(ws.Items[i].Parallel.Steps)} : i \in 1..Len(ws.Items)}

\* C32: once the engine has returned and the workflow is marked complete, no
\* step, parallel group, member or PR gate of the run's state is running.
C32_NothingRunningAtEnd ==
    \A r \in Runs : Completed(r) => StatusRunning \notin AllStatuses(heap[r])

\* A stopped run of a group, stopped while members were being polled.
C32_Witness ==
    \E r \in Runs :
        /\ Completed(r)
        /\ ctxDone[r]
        /\ hist[r].cancelInPoll
        /\ cfg[r] = <<ParallelItem(2)>>
        /\ IsCanceled(eng[r].err)
        /\ heap[r].Status = StatusFailed

\* C33: a step that starts emits exactly one complete event, at its own item
\* index and index inside the group: never a second one, after its start
\* events (no start event follows it), and before the engine advances or
\* returns.
C33_OneCompletePerStart ==
    /\ [](\A r \in Runs : \A j \in 1..MaxGroup :
            LET t == task[r][j]
            IN /\ t.completes <= 1
               /\ (t.pc \in {"completed", "returned"}) => t.completes = 1
               /\ (t.completes = 1) =>
                     /\ t.starts >= 1
                     /\ StepStateAt(heap[r], eng[r].i, j).Status \in {StatusSuccess, StatusFailed})
    /\ [][\A r \in Runs : \A j \in 1..MaxGroup :
            /\ task[r][j].completes = 1 => task'[r][j].starts \in {task[r][j].starts, 0}
            /\ (eng[r].pc \in {"step", "group"} /\ eng'[r].pc \notin {"step", "group"})
                  => (task[r][j].starts > 0 => task[r][j].completes = 1)]_vars

\* Both members of a group have completed: one after its second start event
\* (with the build URL), the other with an error.
C33_Witness ==
    \E r \in Runs :
        /\ eng[r].pc = "group"
        /\ task[r][1].starts = 2
        /\ task[r][1].completes = 1
        /\ task[r][2].starts = 1
        /\ task[r][2].completes = 1
        /\ task[r][2].err # NoErr

\* The positions in the record of run r of the events of the given kinds
\* for item i.
EventsAt(r, i, kinds) ==
    {n \in 1..Len(hist[r].log) : hist[r].log[n].item = i /\ hist[r].log[n].kind \in kinds}

\* The engine of run r has left item i behind: it went on, or returned at it.
LeftItem(r, i) ==
    /\ eng[r].pc \notin {"none", "create"}
    /\ eng[r].i > i \/ (Returned(r) /\ eng[r].i = i)

\* C34: for a PR gate executed without the skip flag, a start event precedes
\* every progress, complete and failed event of the gate, and exactly one of
\* complete and failed is emitted for it.
C34_GateEvents ==
    \A r \in Runs : ~skip[r] =>
        \A i \in 1..Len(cfg[r]) : IsPRWait(cfg[r][i]) =>
            /\ \A n \in EventsAt(r, i, {"progress", "complete", "failed"}) :
                  \E m \in EventsAt(r, i, {"start"}) : m < n
            /\ Cardinality(EventsAt(r, i, {"complete", "failed"})) <= 1
            /\ LeftItem(r, i) => Cardinality(EventsAt(r, i, {"complete", "failed"})) = 1

\* The member steps of the state of run r, and the jobs it has triggered.
MemberActivity(r) ==
    <<[i \in 1..Len(heap[r].Items) |-> heap[r].Items[i].Parallel.Steps], hist[r].trig>>

\* C35: inside a parallel group there are exactly len(steps) tasks; the group
\* returns only when each of them has returned; and outside a group or step
\* no task exists, no job is triggered and no member's state is changed.
C35_GroupJoinsAll ==
    /\ [](\A r \in Runs :
            /\ eng[r].pc = "group" =>
                  {j \in 1..MaxGroup : task[r][j].pc # "off"} = 1..cfg[r][eng[r].i].n
            /\ eng[r].pc \notin {"step", "group"} => \A j \in 1..MaxGroup : task[r][j] = OffTask)
    /\ [][\A r \in Runs :
            /\ (eng[r].pc = "group" /\ eng'[r].pc # "group") =>
                  \A j \in 1..cfg[r][eng[r].i].n :
                      task[r][j].pc = "returned" /\ task[r][j].completes = 1
            /\ (eng[r].pc \notin {"step", "group"} /\ heap[r] # NilState /\ heap'[r] # NilState) =>
                  MemberActivity(r)' = MemberActivity(r)]_vars

\* A group whose first member failed has returned, its members having been
\* triggered and the sibling cancelled.
C35_Witness ==
    \E r \in Runs :
        /\ Returned(r)
        /\ cfg[r] = <<ParallelItem(2)>>
        /\ eng[r].err # NoErr
        /\ eng[r].err.step = <<1, 1>>
        /\ hist[r].trig = {<<1, 1>>, <<1, 2>>}
        /\ StepStateAt(heap[r], 1, 2).Status = StatusFailed

\* A number that has been set keeps its value; so does a URL or title.
KeptNumber(old, new) ==
    old > 0 => new = old

KeptText(old, new) ==
    old # "" => new = old

\* C36: the resolved fields of a PR gate (number, URL, title), in the
\* configuration the engine resolves them into and in the state shown for the
\* run, are written once: a field that holds a value is never given another.
C36_ResolvedWriteOnce ==
    [][\A r \in Runs : \A i \in 1..Len(cfg[r]) : IsPRWait(cfg[r][i]) =>
          /\ KeptNumber(cfg[r][i].pr.PRNumber, cfg'[r][i].pr.PRNumber)
          /\ KeptText(cfg[r][i].pr.ResolvedURL, cfg'[r][i].pr.ResolvedURL)
          /\ KeptText(cfg[r][i].pr.ResolvedTitle, cfg'[r][i].pr.ResolvedTitle)
          /\ (heap[r] # NilState /\ heap'[r] # NilState) =>
                /\ KeptNumber(heap[r].Items[i].PRWait.PRNumber, heap'[r].Items[i].PRWait.PRNumber)
                /\ KeptText(heap[r].Items[i].PRWait.HTMLURL, heap'[r].Items[i].PRWait.HTMLURL)
                /\ KeptText(heap[r].Items[i].PRWait.Title, heap'[r].Items[i].PRWait.Title)]_vars

\* C37: TriggerJob returns without error exactly when the request was
\* answered with status 201 or 202 and a non-empty Location header, and then
\* returns that header's value; in every other case it returns an error and
\* no queue handle.
C37_TriggerNeedsLocation ==
    probe.fn = "TriggerJob" =>
        LET resp == probe.in.resp
            answered == ~probe.in.done /\ ~resp.neterr
        IN /\ probe.out.err = NoErr <=>
                 (answered /\ resp.status \in {201, 202} /\ resp.location # "")
           /\ probe.out.err = NoErr => probe.out.url = resp.location
           /\ probe.out.err # NoErr => probe.out.url = ""

C37_Witness ==
    /\ probe.fn = "TriggerJob"
    /\ probe.in.resp.status = 202
    /\ probe.in.resp.location = "queue/item/7/"
    /\ probe.out.err = NoErr
    /\ probe.out.url = "queue/item/7/"

\* An answer to a poll of the queue that leaves the item waiting: 200, not
\* cancelled, no executable URL.
StillQueued(resp) ==
    ~resp.neterr /\ resp.status = 200 /\ ~resp.cancelled /\ resp.url = ""

\* The first answer that does not leave the item waiting (0: none).
FirstDecisive(resps) ==
    IF \A n \in 1..Len(resps) : StillQueued(resps[n]) THEN 0
    ELSE CHOOSE n \in 1..Len(resps) :
             ~StillQueued(resps[n]) /\ \A m \in 1..(n - 1) : StillQueued(resps[m])

\* C38: WaitForQueue polls as long as the item has no executable URL and
\* returns the first non-empty one; an item reported cancelled, or a 404, ends
\* the wait at that poll with an error, and no poll follows it.
C38_QueueWait ==
    probe.fn = "WaitForQueue" =>
        LET resps == probe.in.resps
            k == FirstDecisive(resps)
            out == probe.out
        IN IF k = 0
           THEN out.waiting /\ out.polls = Len(resps)
           ELSE /\ ~out.waiting
                /\ out.polls = k
                /\ (resps[k].status = 404 \/ (resps[k].status = 200 /\ resps[k].cancelled))
                      => (out.err # NoErr /\ out.url = "")
                /\ out.err = NoErr <=>
                      (resps[k].status = 200 /\ ~resps[k].cancelled /\ resps[k].url # "")
                /\ out.err = NoErr => out.url = resps[k].url

\* Two polls find the item waiting, the third finds it gone, and more answers
\* were to come.
C38_Witness ==
    /\ probe.fn = "WaitForQueue"
    /\ Len(probe.in.resps) = 3
    /\ StillQueued(probe.in.resps[1])
    /\ probe.in.resps[2].status = 404
    /\ probe.out.polls = 2
    /\ probe.out.err # NoErr

\* C39: FailPRWait sets the gate's status to failed with the given error
\* message and an end time not earlier than its start time, and leaves the
\* recorded PR number, URL and title (and the rest of the gate) as they were.
C39_FailKeepsMetadata ==
    probe.fn = "FailPRWait" =>
        LET before == probe.in.ws.Items[1].PRWait
            after == probe.out.Items[1].PRWait
        IN /\ after.Status = StatusFailed
           /\ after.Error = probe.in.errMsg
           /\ after.StartedAt # 0
           /\ after.EndedAt = probe.in.now
           /\ after.EndedAt >= after.StartedAt
           /\ before.StartedAt # 0 => after.StartedAt = before.StartedAt
           /\ after.PRNumber = before.PRNumber
           /\ after.HTMLURL = before.HTMLURL
           /\ after.Title = before.Title
           /\ after.HeadBranch = before.HeadBranch
           /\ after.WaitFor = before.WaitFor

\* A gate started at time 1 with its pull request known, failed at time 3.
C39_Witness ==
    /\ probe.fn = "FailPRWait"
    /\ probe.in.ws.Items[1].PRWait.Status = StatusRunning
    /\ probe.in.ws.Items[1].PRWait.StartedAt = 1
    /\ probe.in.ws.Items[1].PRWait.PRNumber = ThePR
    /\ probe.in.ws.Items[1].PRWait.Title = "T"
    /\ probe.in.now = 3
    /\ probe.out.Items[1].PRWait.Status = StatusFailed
    /\ probe.out.Items[1].PRWait.HTMLURL = "U"

\* C40: every line the logger writes carries the level prefix of the call
\* that produced it, also when several goroutines log at the same time.
C40_OwnPrefix ==
    \A n \in 1..Len(logger.lines) :
        logger.lines[n].prefix = Prefix(logger.lines[n].level)

====
